---------------------------- MODULE Spec2Model ----------------------------
(***************************************************************************)
(* Bank-statement ledger application: the ledger state store (result,      *)
(* history), the extraction life cycle (handleFileChange, handleSubmit,    *)
(* the 500 ms reset timer of finishProgress), the balance reconciliation   *)
(* effect, and the chat assistant's confirmation gate (handleSendMessage). *)
(*                                                                         *)
(* A model state is the React state between two event-loop tasks: every    *)
(* action is one event handler or one continuation of an async handler,    *)
(* together with the effects React runs after the render it causes.        *)
(*                                                                         *)
(* JavaScript values: an object is a record whose DOMAIN is the set of     *)
(* properties that are present (an absent optional property is a missing   *)
(* key); null is the record Null; array indices are 0-based as in the      *)
(* source and converted at the access (At).                                *)
(***************************************************************************)
EXTENDS Integers, Sequences, FiniteSets, TLC

VARIABLES
    openingBalance,          \* App: useState('') - the text of the opening-balance input
    statementContent,        \* App: raw statement text ("" when empty)
    loadingState,            \* App: 'idle' | 'extracting' | 'processing'
    error,                   \* App: error string or Null
    result,                  \* App: the ledger (GeminiResponse) or Null
    balanceMismatchWarning,  \* App: warning or Null
    history,                 \* App: sequence of ledger snapshots
    extractCalls,            \* outstanding Promise.all(extractFromFile) continuations
    processCalls,            \* outstanding processStatement continuations
    resetTimers,             \* pending setTimeout(..., 500) callbacks of finishProgress
    messages,                \* ChatAssistant: the last element of the messages array
    isLoading,               \* ChatAssistant: a chat submission is being handled
    pendingAction,           \* ChatAssistant: the AIChatResponse awaiting confirmation, or Null
    chatCalls,               \* outstanding chatWithAI continuations of the mounted ChatAssistant
    pastedImage,             \* ChatAssistant: an image is attached (TRUE) or pastedImage is null (FALSE)
    imageReads,              \* outstanding FileReader.onload callbacks of handlePaste
    conversions,             \* outstanding fileToGenerativePart continuations of handleSendMessage
    orphanCalls,             \* chatWithAI calls of unmounted ChatAssistants that have not returned
    ignoredReply,            \* trace: a submit event has been ignored since the action became pending
    lastCall,                \* trace: the last call of a ledger mutator since the ledger was installed
    proposedOn,              \* trace: the ledger at the time the pending action was stored, or Null
    extracted,               \* trace: the ledger of the last processStatement that resolved, or Null
    beforeUpload,            \* trace: which of ledger, text and opening balance were set when the upload in progress started, or Null
    voice,                   \* ResultTable: listeningFor, the recognizers created by its effect (the last one is recognitionRef.current) and the transcript just delivered; NoVoice in the specifications that abstract from voice input
    upload,                  \* handleFileChange: the files of the upload, the results of extractFromFile that have resolved and the order in which they did; NoUpload in the specifications that abstract from the files
    page                     \* App: the file name shown, the browser's localStorage and the number of reloads; NoPage in the specifications that abstract from them

appVars == <<openingBalance, statementContent, page, voice, upload, loadingState, error, result,
             balanceMismatchWarning, history, extractCalls, processCalls, resetTimers>>

chatVars == <<messages, isLoading, pendingAction, chatCalls,
              pastedImage, imageReads, conversions, orphanCalls, ignoredReply>>

imageVars == <<pastedImage, imageReads, conversions>>

vars == <<openingBalance, statementContent, loadingState, error, result,
          balanceMismatchWarning, history, extractCalls, processCalls, resetTimers,
          messages, isLoading, pendingAction, chatCalls, pastedImage, imageReads,
          conversions, orphanCalls, ignoredReply, lastCall, proposedOn, extracted,
          beforeUpload, page, voice, upload>>

traceVars == <<lastCall, proposedOn, extracted, beforeUpload>>

---------------------------------------------------------------------------
(* Bounds of the model *)

\* longest transaction list the model builds
MaxTx == 2
\* longest undo history the model builds
MaxHistory == 3
\* most async continuations (extraction calls, processing calls, reset
\* timers) outstanding at once
MaxInFlight == 2
\* most image reads of handlePaste outstanding at once
MaxImageReads == 1
\* most chatWithAI calls outstanding at once, those of unmounted
\* assistants included
MaxChatCalls == 2

---------------------------------------------------------------------------
(* Values *)

Null == [null |-> TRUE]

\* the four editable numeric fields of a transaction
Fields == {"debit", "credit", "fee", "vat"}

\* new Date().toLocaleDateString('vi-VN')
Today == "today"
\* 'Giao dịch mới'
Placeholder == "Giao dich moi"

\* a JS array element by its 0-based index
At(arr, index) == arr[index + 1]

\* obj[key] || dflt for a numeric property: an absent property and 0 are falsy
NumOr(obj, key, dflt) ==
    IF key \in DOMAIN obj /\ obj[key] # 0 THEN obj[key] ELSE dflt

\* obj[key] || dflt for a string property: an absent property and '' are falsy
StrOr(obj, key, dflt) ==
    IF key \in DOMAIN obj /\ obj[key] # "" THEN obj[key] ELSE dflt

---------------------------------------------------------------------------
(* Arithmetic.  A JS number is an IEEE-754 binary64 value: every + and -   *)
(* rounds its exact result to the nearest value with a 53-bit significand, *)
(* ties to even.  The model keeps the same rounding with a significand of  *)
(* Prec bits, over integers (no exponent limit), so that sums whose exact  *)
(* value needs more than Prec bits are rounded as in the program.          *)

\* page loads after the first
MaxReloads == 1

\* recognizers created by the effect of ResultTable
MaxRecognizers == 5

\* files of one upload
MaxFiles == 4

\* significand width of the model's numbers (53 in the program)
Prec == 4

Abs(x) == IF x < 0 THEN 0 - x ELSE x

RECURSIVE Pow2(_)
Pow2(n) == IF n = 0 THEN 1 ELSE 2 * Pow2(n - 1)

\* the spacing of representable values around magnitude m
RECURSIVE Ulp(_, _)
Ulp(m, q) == IF m < q * Pow2(Prec) THEN q ELSE Ulp(m, 2 * q)

\* round to nearest representable value, ties to even
Round(x) ==
    LET m   == Abs(x)
        q   == Ulp(m, 1)
        lo  == (m \div q) * q
        rem == m - lo
        up  == \/ 2 * rem > q
               \/ 2 * rem = q /\ (lo \div q) % 2 = 1
        r   == IF up THEN lo + q ELSE lo
    IN  IF x < 0 THEN 0 - r ELSE r

\* a + b and a - b on numbers
Add(a, b) == Round(a + b)
Sub(a, b) == Round(a - b)

---------------------------------------------------------------------------
(* Objects and arrays *)

\* {}
EmptyObject == [k \in {} |-> 0]

\* { ...obj, [key]: val }
SetProp(obj, key, val) ==
    [k \in (DOMAIN obj) \cup {key} |-> IF k = key THEN val ELSE obj[k]]

\* { ...arr[index] }: spreading undefined (index past the end) gives {}
SpreadAt(arr, index) ==
    IF index < Len(arr) THEN At(arr, index) ELSE EmptyObject

\* arr[index] = val on a copy; index = arr.length extends the array by one
\* (the model never writes further past the end, see ChatUpdates)
AssignAt(arr, index, val) ==
    IF index < Len(arr) THEN [arr EXCEPT ![index + 1] = val]
    ELSE Append(arr, val)

\* arr.slice(0, -1)
DropLast(arr) == SubSeq(arr, 1, Len(arr) - 1)

\* value.toString() of a number, and '' : the text of an input, as the
\* sequence of the number it spells (empty for '')
NumberToString(n) == <<n>>
EmptyText   == <<>>

\* parseFloat(text) || 0
ParseFloatOr0(text) == IF text = EmptyText THEN 0 ELSE text[1]

\* new Error(message) / an error string
Message(m) == [message |-> m]

---------------------------------------------------------------------------
(* Balance reconciliation *)

\* acc += tx.debit, acc += tx.credit: a transaction without the property
\* adds undefined, and the total is NaN from then on
TotalIsNaN(transactions) ==
    \E i \in 1..Len(transactions) :
        "debit" \notin DOMAIN transactions[i] \/ "credit" \notin DOMAIN transactions[i]

\* transactions.reduce((acc, tx) => acc + tx[field], 0), over the first n
RECURSIVE SumRaw(_, _, _)
SumRaw(transactions, field, n) ==
    IF n = 0 THEN 0
    ELSE Add(SumRaw(transactions, field, n - 1), transactions[n][field])

\* transactions.reduce((acc, tx) => acc + (tx[field] || 0), 0), over the first n
RECURSIVE SumOr0(_, _, _)
SumOr0(transactions, field, n) ==
    IF n = 0 THEN 0
    ELSE Add(SumOr0(transactions, field, n - 1), NumOr(transactions[n], field, 0))

\* the reduce of handleSubmit, of the warning effect and of ResultTable
Totals(transactions) ==
    [totalDebit  |-> SumRaw(transactions, "debit", Len(transactions)),
     totalCredit |-> SumRaw(transactions, "credit", Len(transactions)),
     totalFee    |-> SumOr0(transactions, "fee", Len(transactions)),
     totalVat    |-> SumOr0(transactions, "vat", Len(transactions))]

\* openingBal + totalDebit - totalCredit - totalFee - totalVat
CalculatedEndingBalance(openingBal, transactions) ==
    LET t == Totals(transactions)
    IN  Sub(Sub(Sub(Add(openingBal, t.totalDebit), t.totalCredit), t.totalFee), t.totalVat)

\* Math.abs(calculated - declared) > 1; false when calculated is NaN
Mismatch(openingBal, transactions, declared) ==
    /\ ~TotalIsNaN(transactions)
    /\ Abs(Sub(CalculatedEndingBalance(openingBal, transactions), declared)) > 1

\* the warning text: both values and their signed difference
WarningText(openingBal, transactions, declared) ==
    LET c == CalculatedEndingBalance(openingBal, transactions)
    IN  [calculated |-> c, declared |-> declared, difference |-> Sub(c, declared)]

\* Balance Cross-Check Logic of handleSubmit: the warning after it, w before
CrossCheck(data, w) ==
    IF data.endingBalance # 0
       /\ Mismatch(NumOr(data, "openingBalance", 0), data.transactions, data.endingBalance)
    THEN WarningText(NumOr(data, "openingBalance", 0), data.transactions, data.endingBalance)
    ELSE w

\* useEffect(..., [result, openingBalance]): the warning after the effect
\* ran on (res, text), w before; a declared ending balance of 0 leaves it
RecalculateWarning(res, text, w) ==
    IF res = Null THEN Null
    ELSE IF res.endingBalance # 0
         THEN IF Mismatch(ParseFloatOr0(text), res.transactions, res.endingBalance)
              THEN WarningText(ParseFloatOr0(text), res.transactions, res.endingBalance)
              ELSE Null
         ELSE w

---------------------------------------------------------------------------
(* Ledger state store: the three mutators of App *)

\* A variant of UpdatedResult that also clears the declared ending
\* balance.  C24 does not hold of it.
UpdatedResultClearsEnding(res, index, field, value) ==
    [res EXCEPT !.transactions =
                    AssignAt(res.transactions, index,
                             SetProp(SpreadAt(res.transactions, index), field, value)),
                !.endingBalance = 0]

\* handleTransactionUpdate: the new result
UpdatedResult(res, index, field, value) ==
    [res EXCEPT !.transactions =
        AssignAt(res.transactions, index,
                 SetProp(SpreadAt(res.transactions, index), field, value))]

\* A variant of NewTransaction without the default of fee: a payload
\* without fee is stored without it.  C10 does not hold of it.
NewTransactionNoFeeDefault(transaction) ==
    LET t == [transactionCode |-> StrOr(transaction, "transactionCode", ""),
              date            |-> StrOr(transaction, "date", Today),
              description     |-> StrOr(transaction, "description", Placeholder),
              debit           |-> NumOr(transaction, "debit", 0),
              credit          |-> NumOr(transaction, "credit", 0),
              vat             |-> NumOr(transaction, "vat", 0)]
    IN  IF "fee" \in DOMAIN transaction THEN SetProp(t, "fee", transaction.fee) ELSE t

\* handleTransactionAdd: the transaction stored for a payload
NewTransaction(transaction) ==
    [transactionCode |-> StrOr(transaction, "transactionCode", ""),
     date            |-> StrOr(transaction, "date", Today),
     description     |-> StrOr(transaction, "description", Placeholder),
     debit           |-> NumOr(transaction, "debit", 0),
     credit          |-> NumOr(transaction, "credit", 0),
     fee             |-> NumOr(transaction, "fee", 0),
     vat             |-> NumOr(transaction, "vat", 0)]

\* A variant of AddedResult that puts the new transaction first.  C9 does not
\* hold of it.
AddedResultPrepends(res, transaction) ==
    [res EXCEPT !.transactions = <<NewTransaction(transaction)>> \o res.transactions]

\* handleTransactionAdd: the new result
AddedResult(res, transaction) ==
    [res EXCEPT !.transactions = Append(res.transactions, NewTransaction(transaction))]

\* A variant of handleTransactionUpdate that writes into the current
\* transaction object instead of a copy, so that the snapshot it pushed
\* shows the new value too.  C2 does not hold of it.
HandleTransactionUpdateInPlace(index, field, value) ==
    IF result = Null
    THEN UNCHANGED <<result, history, balanceMismatchWarning>>
    ELSE /\ result' = UpdatedResult(result, index, field, value)
         /\ history' = Append(history, result')
         /\ balanceMismatchWarning' =
                RecalculateWarning(result', openingBalance, balanceMismatchWarning)

\* handleTransactionUpdate(index, field, value), with the warning effect
HandleTransactionUpdate(index, field, value) ==
    IF result = Null
    THEN UNCHANGED <<result, history, balanceMismatchWarning>>
    ELSE /\ history' = Append(history, result)
         /\ result' = UpdatedResult(result, index, field, value)
         /\ balanceMismatchWarning' =
                RecalculateWarning(result', openingBalance, balanceMismatchWarning)

\* handleTransactionAdd(transaction), with the warning effect
HandleTransactionAdd(transaction) ==
    IF result = Null
    THEN UNCHANGED <<result, history, balanceMismatchWarning>>
    ELSE /\ history' = Append(history, result)
         /\ result' = AddedResult(result, transaction)
         /\ balanceMismatchWarning' =
                RecalculateWarning(result', openingBalance, balanceMismatchWarning)

\* A variant of handleUndoLastChange whose guard is history.length < 1.
\* C5 does not hold of it.
HandleUndoLastChangeOffByOne ==
    IF Len(history) < 1
    THEN UNCHANGED <<result, history, balanceMismatchWarning>>
    ELSE /\ result' = history[Len(history)]
         /\ history' = DropLast(history)
         /\ balanceMismatchWarning' =
                RecalculateWarning(result', openingBalance, balanceMismatchWarning)

\* A variant of handleUndoLastChange that restores the entry before the
\* last one.  C6 does not hold of it.
HandleUndoLastChangeRestoresEarlier ==
    IF Len(history) <= 1
    THEN UNCHANGED <<result, history, balanceMismatchWarning>>
    ELSE /\ result' = history[Len(history) - 1]
         /\ history' = DropLast(history)
         /\ balanceMismatchWarning' =
                RecalculateWarning(result', openingBalance, balanceMismatchWarning)

\* handleUndoLastChange(), with the warning effect
HandleUndoLastChange ==
    IF Len(history) <= 1
    THEN UNCHANGED <<result, history, balanceMismatchWarning>>
    ELSE /\ result' = history[Len(history)]
         /\ history' = DropLast(history)
         /\ balanceMismatchWarning' =
                RecalculateWarning(result', openingBalance, balanceMismatchWarning)

---------------------------------------------------------------------------
(* Inputs: what the user, the file extraction and the AI service supply *)

\* a transaction of the structuring schema: date, description, debit and
\* credit are required, transactionCode, fee and vat are optional
Tx(debit, credit) ==
    [date |-> "05/01", description |-> "p", debit |-> debit, credit |-> credit]

TxFee(debit, credit, fee, vat) ==
    [transactionCode |-> "T1", date |-> "06/01", description |-> "q",
     debit |-> debit, credit |-> credit, fee |-> fee, vat |-> vat]

\* ledgers processStatement may return: one transaction, a computed ending
\* balance of 4, and a declared ending balance of 0 (none found), 5 or 7
Ledgers ==
    { [accountInfo |-> "acct", transactions |-> <<Tx(3, 0)>>,
       openingBalance |-> 1, endingBalance |-> e] : e \in {0, 5, 7} }

\* raw statement texts (typed, or produced by the file extraction)
Texts == {"", "statement"}

\* what the user types into the opening-balance input
TypedBalances == { [text |-> "digits", value |-> 2], [text |-> "empty"], [text |-> "abc"] }

\* values typed into a cell: parseFloat(...) with NaN coerced to 0
CellValues == {0, 2}

\* update payloads of the AI: any field, an index up to the end of the
\* longest list (index = transactions.length is one past the end)
ChatUpdates ==
    { [index |-> i, field |-> f, newValue |-> 6] : i \in 0..(MaxTx - 1), f \in Fields }

\* add payloads of the AI: a full transaction, dated before the ledgers'
\* transactions, and one with every optional and defaulted property missing
\* or falsy
ChatAdds ==
    { [transactionCode |-> "T9", date |-> "03/01", description |-> "r",
       debit |-> 0, credit |-> 2, fee |-> 1, vat |-> 1],
      [description |-> "", debit |-> 4] }

Actions == {"update", "undo", "add", "query"}

\* one update payload and one add payload, for the responses whose payload
\* does not go with their action
AnUpdate == [index |-> 0, field |-> "debit", newValue |-> 6]
AnAdd    == [description |-> "", debit |-> 4]

\* responses of chatWithAI parsed from the AI's JSON: every action with the
\* payload that goes with it, with no payload, and with the other payload
AIResponses ==
    { [responseText |-> "reply", action |-> a, confirmationRequired |-> c] :
        a \in Actions, c \in BOOLEAN }
    \cup
    { [responseText |-> "reply", action |-> "update", update |-> u,
       confirmationRequired |-> c] : u \in ChatUpdates, c \in BOOLEAN }
    \cup
    { [responseText |-> "reply", action |-> "add", add |-> t,
       confirmationRequired |-> c] : t \in ChatAdds, c \in BOOLEAN }
    \cup
    { [responseText |-> "reply", action |-> a, update |-> AnUpdate,
       confirmationRequired |-> c] : a \in {"undo", "add", "query"}, c \in BOOLEAN }
    \cup
    { [responseText |-> "reply", action |-> a, add |-> AnAdd,
       confirmationRequired |-> c] : a \in {"update", "query"}, c \in BOOLEAN }

\* the response chatWithAI returns from its catch block
ApologyResponse ==
    [responseText |-> "apology", action |-> "query", confirmationRequired |-> FALSE]

\* what the user submits in the chat box, and its input.trim()
UserInputs == {"ok", "OK ", "khong", "  "}

Trim(text) ==
    CASE text = "OK " -> "OK"
      [] text = "  "  -> ""
      [] OTHER        -> text

ToLowerCase(text) ==
    CASE text = "OK" -> "ok"
      [] OTHER       -> text

\* affirmativeAnswers (the model writes the list without diacritics)
AffirmativeAnswers ==
    {"co", "ok", "yes", "dong y", "u", "uhm", "uh", "confirm", "duoc"}

---------------------------------------------------------------------------
(* Chat assistant state *)

Greeting  == [role |-> "model", content |-> "greeting"]
Confirmed == [role |-> "model", content |-> "Da, em da dieu chinh xong"]
Cancelled == [role |-> "model", content |-> "Da vang, em da huy yeu cau"]
ChatError == [role |-> "model", content |-> "Xin loi, da co loi xay ra"]

NoCall == [op |-> "none"]

\* the state of a ChatAssistant that has just been mounted; the calls of
\* the unmounted one stay outstanding at the AI service (a conversion's
\* continuation goes on to call chatWithAI), its image reads set state on
\* nothing
ChatMounted ==
    /\ messages' = Greeting
    /\ isLoading' = FALSE
    /\ pendingAction' = Null
    /\ chatCalls' = 0
    /\ pastedImage' = FALSE
    /\ imageReads' = 0
    /\ conversions' = 0
    /\ orphanCalls' = orphanCalls + chatCalls + conversions
    /\ ignoredReply' = FALSE
    /\ proposedOn' = Null

\* the render {result && <ChatAssistant/>} after the step: a step that
\* sets result to null unmounts the assistant, and the next one mounted
\* starts from its initial state; the continuations of the unmounted one
\* set state on nothing
ChatRemountedOrKept ==
    IF result' = Null THEN ChatMounted ELSE UNCHANGED <<chatVars, proposedOn>>

---------------------------------------------------------------------------
(* handleFileChange: the files of an upload and the combined text *)

\* the value of upload in the specifications that abstract from the files
NoUpload == [abstracted |-> TRUE]

\* a text is a sequence of characters and words; these are white space
IsBlank(token) == token \in {" ", "\n"}

RECURSIVE TrimStart(_)
TrimStart(tokens) ==
    IF tokens = <<>> THEN tokens
    ELSE IF IsBlank(Head(tokens)) THEN TrimStart(Tail(tokens)) ELSE tokens

RECURSIVE TrimEnd(_)
TrimEnd(tokens) ==
    IF tokens = <<>> THEN tokens
    ELSE IF IsBlank(tokens[Len(tokens)])
         THEN TrimEnd(SubSeq(tokens, 1, Len(tokens) - 1))
         ELSE tokens

\* text.trim()
TrimTokens(tokens) == TrimEnd(TrimStart(tokens))

\* the string of a text
RECURSIVE AsString(_)
AsString(tokens) ==
    IF tokens = <<>> THEN "" ELSE Head(tokens) \o AsString(Tail(tokens))

\* '\n\n--- TÁCH BIỆT SAO KÊ ---\n\n'
Separator == <<"\n", "\n", "--- TACH BIET SAO KE ---", "\n", "\n">>

\* texts.join(separator)
RECURSIVE JoinTexts(_, _)
JoinTexts(texts, separator) ==
    IF Len(texts) = 0 THEN <<>>
    ELSE IF Len(texts) = 1 THEN texts[1]
    ELSE texts[1] \o separator \o JoinTexts(Tail(texts), separator)

\* what extractFromFile resolves with for the file name: a is a text file,
\* b an image, c a text file that starts with a blank, d a PDF of two
\* pages, e an empty text file; text is null (absent here) for images
FileResult(name) ==
    CASE name = "a" -> [text |-> <<"x">>, images |-> <<>>]
      [] name = "b" -> [images |-> <<"b">>]
      [] name = "c" -> [text |-> <<" ", "y">>, images |-> <<>>]
      [] name = "d" -> [images |-> <<"d1", "d2">>]
      [] OTHER      -> [text |-> <<>>, images |-> <<>>]

\* results.map(r => r.text).filter(Boolean) of the first n results
RECURSIVE AllTexts(_, _)
AllTexts(results, n) ==
    IF n = 0 THEN <<>>
    ELSE IF "text" \in DOMAIN results[n] /\ results[n].text # <<>>
         THEN Append(AllTexts(results, n - 1), results[n].text)
         ELSE AllTexts(results, n - 1)

\* results.flatMap(r => r.images) of the first n results
RECURSIVE AllImages(_, _)
AllImages(results, n) ==
    IF n = 0 THEN <<>> ELSE AllImages(results, n - 1) \o results[n].images

\* what extractTextFromContent may resolve with for the images: nothing,
\* or the text of each image in the order of the images
OcrTexts(images) == { <<>>, images }

\* combinedText.trim() for the results of n files and the OCR text
CombinedText(results, n, textFromImages) ==
    LET joined == JoinTexts(AllTexts(results, n), Separator)
    IN  AsString(TrimTokens(IF Len(AllImages(results, n)) > 0
                            THEN joined \o <<"\n", "\n">> \o textFromImages
                            ELSE joined))

\* A variant of Resolved that keeps the results in the order of their
\* completion.  C22 does not hold of it.
ResolvedInCompletionOrder(results, i, fileResult) ==
    [k \in DOMAIN results \cup {Cardinality(DOMAIN results) + 1} |->
        IF k \in DOMAIN results THEN results[k] ELSE fileResult]

\* Promise.all: the result of the i-th promise is the i-th element
Resolved(results, i, fileResult) ==
    [k \in DOMAIN results \cup {i} |-> IF k = i THEN fileResult ELSE results[k]]

\* handleFileChange starts the extraction of the files
Started(u, fileNames) ==
    IF u = NoUpload THEN u
    ELSE [u EXCEPT !.status = "extracting", !.files = fileNames,
                   !.results = <<>>, !.order = <<>>]

\* the try block of handleFileChange has ended: the content is installed,
\* or the catch block has run
Settled(u, how) ==
    IF u = NoUpload THEN u
    ELSE [u EXCEPT !.status = how,
                   !.failedBefore = @ \/ how = "failed"]

---------------------------------------------------------------------------
(* ResultTable: voice input *)

\* the value of voice in the specifications that abstract from voice input
NoVoice == [abstracted |-> TRUE]

\* the recognizer created by a run of the effect: its callbacks close over
\* listeningFor and over onUpdateTransaction (handleTransactionUpdate, which
\* closes over result) of the render the effect belongs to
Recognizer(listeningFor, res) ==
    [listeningFor |-> listeningFor, ledger |-> res,
     startedOn |-> Null, status |-> "idle"]

\* the render of ResultTable after a handler that left the state after and
\* the ledger res, the state having been before: the effect with the
\* dependencies [onUpdateTransaction, listeningFor] runs when listeningFor
\* has changed or when App has rendered too (appRendered:
\* handleTransactionUpdate is a new function then); it creates a recognizer
\* and stores it in recognitionRef
Rendered(before, after, res, appRendered) ==
    IF after = NoVoice THEN after
    ELSE IF after.listeningFor = before.listeningFor /\ ~appRendered
         THEN after
         ELSE [after EXCEPT !.recognizers =
                               Append(@, Recognizer(after.listeningFor, res))]

\* recognitionRef.current
RecognitionRef(v) == Len(v.recognizers)

\* what the recognizer hears
Transcripts == {"5", "2 trieu", "3 nghin", "1.5", "nam"}

\* parseFloat(transcript.replace(/,/g, '').replace(/\./g, '').replace(/\s/g, ''))
ParsedTranscript(transcript) ==
    CASE transcript = "5"       -> [value |-> 5]
      [] transcript = "2 trieu" -> [value |-> 2]
      [] transcript = "3 nghin" -> [value |-> 3]
      [] transcript = "1.5"     -> [value |-> 15]
      [] OTHER                  -> [nan |-> TRUE]

\* !isNaN(numericValue)
IsNumber(transcript) == "value" \in DOMAIN ParsedTranscript(transcript)

\* the value after the scaling for 'triệu', 'nghìn' and 'ngàn'
ScaledValue(transcript) ==
    CASE transcript = "2 trieu" -> ParsedTranscript(transcript).value * 1000000
      [] transcript = "3 nghin" -> ParsedTranscript(transcript).value * 1000
      [] OTHER                  -> ParsedTranscript(transcript).value

\* handleVoiceInput(index, field) with a recognizer in recognitionRef
HandleVoiceInput(index, field) ==
    /\ result # Null
    /\ voice # NoVoice
    /\ Len(voice.recognizers) < MaxRecognizers
    /\ index < Len(result.transactions)
    /\ LET ref == RecognitionRef(voice)
           cell == [index |-> index, field |-> field]
       IN  IF voice.listeningFor # Null
           THEN \* stop() ends a recognizer that listens, setListeningFor(null)
                voice' = Rendered(voice,
                                  [voice EXCEPT !.listeningFor = Null, !.heard = Null],
                                  result, FALSE)
           ELSE \* setListeningFor({ index, field }), start()
                voice' = Rendered(voice,
                                  [voice EXCEPT
                                      !.listeningFor = cell,
                                      !.heard = Null,
                                      !.recognizers[ref] =
                                          IF @.status = "idle"
                                          THEN [@ EXCEPT !.startedOn = cell,
                                                         !.status = "listening"]
                                          ELSE @],
                                  result, FALSE)
    /\ UNCHANGED <<openingBalance, statementContent, page, upload, loadingState, error, result,
                   balanceMismatchWarning, history, extractCalls, processCalls,
                   resetTimers, chatVars, traceVars>>

\* recognition.onresult of the recognizer r with the transcript
\* transcript: onUpdateTransaction of its closure when the transcript is a
\* number and the listeningFor of its closure is set
OnResult(r, transcript) ==
    /\ voice # NoVoice
    /\ r \in 1..Len(voice.recognizers)
    /\ voice.recognizers[r].status = "listening"
    /\ Len(voice.recognizers) < MaxRecognizers
    /\ Len(history) < MaxHistory
    /\ LET rec == voice.recognizers[r]
           after == [voice EXCEPT !.recognizers[r].status = "heard",
                                  !.heard = [recognizer |-> r, transcript |-> transcript]]
       IN  IF IsNumber(transcript) /\ rec.listeningFor # Null /\ rec.ledger # Null
           THEN /\ history' = Append(history, rec.ledger)
                /\ result' = UpdatedResult(rec.ledger, rec.listeningFor.index,
                                           rec.listeningFor.field, ScaledValue(transcript))
                /\ balanceMismatchWarning' =
                       RecalculateWarning(result', openingBalance, balanceMismatchWarning)
                /\ voice' = Rendered(voice, after, result', TRUE)
                /\ lastCall' = [op |-> "update", via |-> "voice", len |-> Len(history)]
           ELSE /\ voice' = after
                /\ UNCHANGED <<result, history, balanceMismatchWarning, lastCall>>
    /\ UNCHANGED <<openingBalance, statementContent, page, upload, loadingState, error,
                   extractCalls, processCalls, resetTimers, chatVars,
                   proposedOn, extracted, beforeUpload>>

\* recognition.onend of the recognizer r: setListeningFor(null)
OnEnd(r) ==
    /\ voice # NoVoice
    /\ r \in 1..Len(voice.recognizers)
    /\ voice.recognizers[r].status \in {"listening", "heard"}
    /\ Len(voice.recognizers) < MaxRecognizers
    /\ voice' = Rendered(voice,
                         [voice EXCEPT !.recognizers[r].status = "idle",
                                       !.listeningFor = Null,
                                       !.heard = Null],
                         result, FALSE)
    /\ UNCHANGED <<openingBalance, statementContent, page, upload, loadingState, error, result,
                   balanceMismatchWarning, history, extractCalls, processCalls,
                   resetTimers, chatVars, traceVars>>

---------------------------------------------------------------------------
(* localStorage and the file name *)

\* the value of page in the specifications that abstract from the file
\* name and from localStorage
NoPage == [abstracted |-> TRUE]

\* localStorage.getItem(key) || '': an absent item and an empty one both
\* give the empty string
GetItemOrEmpty(storage, key) ==
    IF key \in DOMAIN storage THEN storage[key] ELSE ""

\* localStorage.setItem(key, value)
SetItem(storage, key, value) ==
    [k \in DOMAIN storage \cup {key} |-> IF k = key THEN value ELSE storage[k]]

\* setFileName(name), and the effect on [fileName] of the render
SetFileName(p, name) ==
    IF p = NoPage THEN p
    ELSE [p EXCEPT !.fileName = name,
                   !.localStorage = SetItem(@, "fileName", name)]

\* A variant of StoreStatement without the effect: the text is not written
\* to localStorage.  C21 does not hold of it.
StoreStatementDropped(p, text) == p

\* the effect on [statementContent] of the render after
\* setStatementContent(text)
StoreStatement(p, text) ==
    IF p = NoPage THEN p
    ELSE [p EXCEPT !.localStorage = SetItem(@, "statementContent", text)]

\* the names of the files of an upload: one file, two, and more than three
UploadedNames == {<<"a">>, <<"a", "b">>, <<"a", "b", "c", "d">>}

\* fileNames.join(', ')
RECURSIVE JoinNames(_)
JoinNames(names) ==
    IF Len(names) = 0 THEN ""
    ELSE IF Len(names) = 1 THEN names[1]
    ELSE names[1] \o ", " \o JoinNames(Tail(names))

\* the name shown: the names joined when there are at most 3 files, else
\* their number
ShownName(fileNames) ==
    IF Len(fileNames) <= 3
    THEN JoinNames(fileNames)
    ELSE ToString(Len(fileNames)) \o " tep da chon"

---------------------------------------------------------------------------
(* App: upload, processing, the reset timer, the inputs *)

Init ==
    /\ openingBalance = EmptyText
    /\ statementContent \in Texts          \* restored from localStorage
    /\ loadingState = "idle"
    /\ error = Null
    /\ result = Null
    /\ balanceMismatchWarning = Null
    /\ history = <<>>
    /\ extractCalls = 0
    /\ processCalls = 0
    /\ resetTimers = 0
    /\ messages = Greeting
    /\ isLoading = FALSE
    /\ pendingAction = Null
    /\ chatCalls = 0
    /\ pastedImage = FALSE
    /\ imageReads = 0
    /\ conversions = 0
    /\ orphanCalls = 0
    /\ ignoredReply = FALSE
    /\ beforeUpload = Null
    /\ page = NoPage
    /\ voice = NoVoice
    /\ upload = NoUpload
    /\ lastCall = NoCall
    /\ proposedOn = Null
    /\ extracted = Null

\* the inputs are inside the block that is pointer-events-none while loading
InputsEnabled == loadingState = "idle"

\* the continuations outstanding; a call that returns schedules one timer
Outstanding == extractCalls + processCalls + resetTimers

\* handleFileChange up to its first await (a non-empty file list)
HandleFileChange(fileNames) ==
    /\ InputsEnabled
    /\ Outstanding < MaxInFlight
    /\ orphanCalls + chatCalls + conversions < MaxChatCalls
    /\ result' = Null
    /\ statementContent' = ""
    /\ page' = StoreStatement(SetFileName(page, ShownName(fileNames)), statementContent')
    /\ upload' = Started(upload, fileNames)
    /\ UNCHANGED voice
    /\ openingBalance' = EmptyText
    /\ balanceMismatchWarning' = Null
    /\ loadingState' = "extracting"
    /\ error' = Null
    /\ extractCalls' = extractCalls + 1
    /\ ChatRemountedOrKept
    /\ lastCall' = NoCall
    /\ beforeUpload' = [result |-> result # Null,
                        statementContent |-> statementContent # "",
                        openingBalance |-> openingBalance # EmptyText]
    /\ UNCHANGED <<history, processCalls, resetTimers, extracted>>

\* handleFileChange after the extraction: setStatementContent(combinedText.trim()),
\* then finishProgress() and setLoadingState('idle')
ExtractionReturns(combinedText) ==
    /\ extractCalls > 0
    /\ statementContent' = combinedText
    /\ page' = StoreStatement(page, statementContent')
    /\ upload' = Settled(upload, "installed")
    /\ UNCHANGED voice
    /\ resetTimers' = resetTimers + 1
    /\ loadingState' = "idle"
    /\ extractCalls' = extractCalls - 1
    /\ beforeUpload' = IF extractCalls' = 0 THEN Null ELSE beforeUpload
    /\ UNCHANGED <<openingBalance, error, result, balanceMismatchWarning, history,
                   processCalls, chatVars, lastCall, proposedOn, extracted>>

\* handleFileChange when an extraction rejects
ExtractionThrows ==
    /\ extractCalls > 0
    /\ error' = Message("Loi doc file")
    /\ page' = SetFileName(page, "")
    /\ upload' = Settled(upload, "failed")
    /\ UNCHANGED voice
    /\ resetTimers' = resetTimers + 1
    /\ loadingState' = "idle"
    /\ extractCalls' = extractCalls - 1
    /\ beforeUpload' = IF extractCalls' = 0 THEN Null ELSE beforeUpload
    /\ UNCHANGED <<openingBalance, statementContent, result, balanceMismatchWarning,
                   history, processCalls, chatVars, lastCall, proposedOn, extracted>>

\* the timeout callback of finishProgress
ResetTimerFires ==
    /\ resetTimers > 0
    /\ loadingState' = "idle"
    /\ resetTimers' = resetTimers - 1
    /\ UNCHANGED <<openingBalance, statementContent, page, upload, voice, error, result,
                   balanceMismatchWarning, history, extractCalls, processCalls,
                   chatVars, traceVars>>

\* handleSubmit up to its await; the button is disabled while loading and
\* while there is no statement content
HandleSubmit ==
    /\ loadingState = "idle"
    /\ statementContent # ""
    /\ Outstanding < MaxInFlight
    /\ orphanCalls + chatCalls + conversions < MaxChatCalls
    /\ loadingState' = "processing"
    /\ error' = Null
    /\ result' = Null
    /\ balanceMismatchWarning' = Null
    /\ history' = <<>>
    /\ processCalls' = processCalls + 1
    /\ ChatRemountedOrKept
    /\ lastCall' = NoCall
    /\ UNCHANGED <<openingBalance, statementContent, page, upload, voice, extractCalls, resetTimers,
                   extracted, beforeUpload>>

\* A variant of the continuation of handleSubmit that appends the new
\* ledger to the history instead of replacing the history by it.  C28 does
\* not hold of it.
ProcessStatementReturnsAppends(data) ==
    /\ processCalls > 0
    /\ openingBalance' = NumberToString(data.openingBalance)
    /\ result' = data
    /\ history' = Append(history, data)
    /\ balanceMismatchWarning' =
           RecalculateWarning(data, openingBalance', CrossCheck(data, balanceMismatchWarning))
    /\ resetTimers' = resetTimers + 1
    /\ processCalls' = processCalls - 1
    /\ lastCall' = NoCall
    /\ extracted' = data
    /\ UNCHANGED <<statementContent, page, upload, voice, loadingState, error, extractCalls, chatVars, proposedOn,
                   beforeUpload>>

\* A variant of the continuation of handleSubmit without
\* setHistory([data]).  C4 does not hold of it.
ProcessStatementReturnsKeepsHistory(data) ==
    /\ processCalls > 0
    /\ openingBalance' = NumberToString(data.openingBalance)
    /\ result' = data
    /\ balanceMismatchWarning' =
           RecalculateWarning(data, openingBalance', CrossCheck(data, balanceMismatchWarning))
    /\ resetTimers' = resetTimers + 1
    /\ processCalls' = processCalls - 1
    /\ lastCall' = NoCall
    /\ extracted' = data
    /\ UNCHANGED <<statementContent, page, upload, voice, loadingState, error, extractCalls, chatVars,
                   proposedOn, beforeUpload, history>>

\* handleSubmit after processStatement resolved with data, then the warning effect
ProcessStatementReturns(data) ==
    /\ processCalls > 0
    /\ openingBalance' = NumberToString(data.openingBalance)
    /\ result' = data
    /\ history' = <<data>>
    /\ balanceMismatchWarning' =
           RecalculateWarning(data, openingBalance', CrossCheck(data, balanceMismatchWarning))
    /\ resetTimers' = resetTimers + 1
    /\ processCalls' = processCalls - 1
    /\ lastCall' = NoCall
    /\ extracted' = data
    /\ UNCHANGED <<statementContent, page, upload, voice, loadingState, error, extractCalls, chatVars, proposedOn,
                   beforeUpload>>

\* handleSubmit when processStatement throws
ProcessStatementThrows ==
    /\ processCalls > 0
    /\ error' = Message("Khong the xu ly sao ke")
    /\ resetTimers' = resetTimers + 1
    /\ processCalls' = processCalls - 1
    /\ UNCHANGED <<openingBalance, statementContent, page, upload, voice, loadingState, result,
                   balanceMismatchWarning, history, extractCalls, chatVars, traceVars>>

\* onChange of the statement textarea
EditStatementContent(text) ==
    /\ InputsEnabled
    /\ statementContent' = text
    /\ page' = StoreStatement(page, statementContent')
    /\ UNCHANGED <<voice, upload>>
    /\ UNCHANGED <<openingBalance, loadingState, error, result, balanceMismatchWarning,
                   history, extractCalls, processCalls, resetTimers, chatVars, traceVars>>

\* onChange of the opening-balance input, then the warning effect
EditOpeningBalance(typed) ==
    /\ InputsEnabled
    /\ openingBalance' =
           CASE typed.text = "digits" -> NumberToString(typed.value)
             [] typed.text = "empty"  -> EmptyText
             [] OTHER                 -> openingBalance
    /\ balanceMismatchWarning' =
           IF openingBalance' # openingBalance
           THEN RecalculateWarning(result, openingBalance', balanceMismatchWarning)
           ELSE balanceMismatchWarning
    /\ UNCHANGED <<statementContent, page, upload, voice, loadingState, error, result, history,
                   extractCalls, processCalls, resetTimers, chatVars, traceVars>>

\* onChange of a cell of the table: onUpdateTransaction(index, field, value)
CellEdit(index, field, value) ==
    /\ result # Null
    /\ index < Len(result.transactions)
    /\ Len(history) < MaxHistory
    /\ HandleTransactionUpdate(index, field, value)
    /\ voice' = Rendered(voice, voice, result', TRUE)
    /\ lastCall' = [op |-> "update", via |-> "cell", len |-> Len(history)]
    /\ UNCHANGED <<openingBalance, statementContent, page, upload, loadingState, error,
                   extractCalls, processCalls, resetTimers, chatVars,
                   proposedOn, extracted, beforeUpload>>

---------------------------------------------------------------------------
(* ChatAssistant: handleSendMessage *)

\* A variant of IsAffirmative without toLowerCase().  C11 does not hold
\* of it.
IsAffirmativeCaseSensitive(userMessageContent) ==
    userMessageContent \in AffirmativeAnswers

IsAffirmative(userMessageContent) ==
    ToLowerCase(userMessageContent) \in AffirmativeAnswers

\* the confirmation branch: execute the pending action
ExecutePending ==
    IF pendingAction.action = "update" /\ "update" \in DOMAIN pendingAction
    THEN /\ HandleTransactionUpdate(pendingAction.update.index,
                                    pendingAction.update.field,
                                    pendingAction.update.newValue)
         /\ lastCall' = [op |-> "update", via |-> "chat", len |-> Len(history)]
    ELSE IF pendingAction.action = "undo"
    THEN /\ HandleUndoLastChange
         /\ lastCall' = [op |-> "undo", via |-> "chat", len |-> Len(history)]
    ELSE IF pendingAction.action = "add" /\ "add" \in DOMAIN pendingAction
    THEN /\ HandleTransactionAdd(pendingAction.add)
         /\ lastCall' = [op |-> "add", via |-> "chat", len |-> Len(history)]
    ELSE UNCHANGED <<result, history, balanceMismatchWarning, lastCall>>

\* the bounds of the model, as they limit the pending action's execution
PendingWithinBounds ==
    \/ pendingAction.action = "undo"
    \/ pendingAction.action = "query"
    \/ /\ pendingAction.action = "update"
       /\ "update" \in DOMAIN pendingAction =>
             /\ Len(history) < MaxHistory
             /\ pendingAction.update.index <= Len(result.transactions)
             /\ pendingAction.update.index < MaxTx
    \/ /\ pendingAction.action = "add"
       /\ "add" \in DOMAIN pendingAction =>
             /\ Len(history) < MaxHistory
             /\ Len(result.transactions) < MaxTx

\* the affirmative branch: the pending action is executed and the fixed
\* confirmation message is appended
AffirmativeReply ==
    /\ PendingWithinBounds
    /\ ExecutePending
    /\ messages' = Confirmed

\* A variant of the other branch that executes the pending action all the
\* same.  C3 does not hold of it.
DeclineReplyExecutes ==
    /\ messages' = Cancelled
    /\ PendingWithinBounds
    /\ ExecutePending

\* the other branch: the fixed cancellation message is appended
DeclineReply ==
    /\ messages' = Cancelled
    /\ UNCHANGED <<result, history, balanceMismatchWarning, lastCall>>

\* A variant of ConfirmationReply that also sends the reply to the AI.
\* C13 does not hold of it.
ConfirmationReplyAsksAI(userMessageContent) ==
    /\ IF IsAffirmative(userMessageContent) THEN AffirmativeReply ELSE DeclineReply
    /\ pastedImage' = FALSE
    /\ pendingAction' = Null
    /\ ignoredReply' = FALSE
    /\ proposedOn' = Null
    /\ isLoading' = TRUE
    /\ chatCalls' = chatCalls + 1
    /\ UNCHANGED <<openingBalance, statementContent, page, upload, voice, loadingState, error,
                   extractCalls, processCalls, resetTimers,
                   imageReads, conversions, orphanCalls, extracted, beforeUpload>>

\* Confirmation Handling Logic: the reply to a pending action
ConfirmationReply(userMessageContent) ==
    /\ IF IsAffirmative(userMessageContent) THEN AffirmativeReply ELSE DeclineReply
    /\ pastedImage' = FALSE
    /\ pendingAction' = Null
    /\ ignoredReply' = FALSE
    /\ proposedOn' = Null
    /\ isLoading' = FALSE
    /\ UNCHANGED <<openingBalance, statementContent, page, upload, voice, loadingState, error,
                   extractCalls, processCalls, resetTimers, chatCalls,
                   imageReads, conversions, orphanCalls, extracted, beforeUpload>>

\* the user's message: { role, content, ...(pastedImage && { image }) }
UserMessage(userMessageContent) ==
    IF pastedImage
    THEN [role |-> "user", content |-> userMessageContent, image |-> "dataUrl"]
    ELSE [role |-> "user", content |-> userMessageContent]

\* the message goes to the AI: with a pasted image up to
\* await fileToGenerativePart(...), without one up to await chatWithAI(...)
DispatchToAI(userMessageContent) ==
    /\ messages' = UserMessage(userMessageContent)
    /\ isLoading' = TRUE
    /\ IF pastedImage
       THEN /\ conversions' = conversions + 1
            /\ UNCHANGED <<chatCalls, pastedImage>>
       ELSE /\ chatCalls' = chatCalls + 1
            /\ pastedImage' = FALSE
            /\ UNCHANGED conversions
    /\ UNCHANGED <<appVars, pendingAction, imageReads, orphanCalls, ignoredReply, traceVars>>

\* handleSendMessage after fileToGenerativePart resolved:
\* setPastedImage(null), then up to await chatWithAI(...)
ConversionReturns ==
    /\ conversions > 0
    /\ conversions' = conversions - 1
    /\ pastedImage' = FALSE
    /\ chatCalls' = chatCalls + 1
    /\ UNCHANGED <<appVars, messages, isLoading, pendingAction, imageReads,
                   orphanCalls, ignoredReply, traceVars>>

\* handlePaste with an image item in the clipboard: nothing while an
\* action is pending, else the FileReader is started
HandlePaste ==
    /\ result # Null
    /\ imageReads < MaxImageReads
    /\ IF pendingAction # Null
       THEN UNCHANGED vars
       ELSE /\ imageReads' = imageReads + 1
            /\ UNCHANGED <<appVars, messages, isLoading, pendingAction, chatCalls,
                           pastedImage, conversions, orphanCalls, ignoredReply, traceVars>>

\* reader.onload of handlePaste: setPastedImage({ dataUrl, file })
ImageReadCompletes ==
    /\ imageReads > 0
    /\ imageReads' = imageReads - 1
    /\ pastedImage' = TRUE
    /\ UNCHANGED <<appVars, messages, isLoading, pendingAction, chatCalls,
                   conversions, orphanCalls, ignoredReply, traceVars>>

\* onClick of the remove button of the preview: setPastedImage(null)
RemovePastedImage ==
    /\ result # Null
    /\ pastedImage
    /\ pastedImage' = FALSE
    /\ UNCHANGED <<appVars, messages, isLoading, pendingAction, chatCalls,
                   imageReads, conversions, orphanCalls, ignoredReply, traceVars>>

\* a chatWithAI call of an unmounted assistant returns: its continuation
\* sets state on nothing
OrphanCallReturns ==
    /\ orphanCalls > 0
    /\ orphanCalls' = orphanCalls - 1
    /\ UNCHANGED <<appVars, messages, isLoading, pendingAction, chatCalls,
                   imageVars, ignoredReply, traceVars>>

\* A variant of HandleSendMessage whose guard does not look at isLoading.
\* C15 does not hold of it.
HandleSendMessageWhileLoading(input) ==
    /\ result # Null
    /\ IF Trim(input) = "" /\ ~pastedImage
       THEN IF pendingAction # Null
            THEN /\ ignoredReply' = TRUE
                 /\ UNCHANGED <<appVars, messages, isLoading, pendingAction,
                                chatCalls, imageVars, orphanCalls, traceVars>>
            ELSE UNCHANGED vars
       ELSE IF pendingAction # Null
            THEN ConfirmationReply(Trim(input))
            ELSE DispatchToAI(Trim(input))

\* handleSendMessage up to its first await; the assistant is rendered
\* only while there is a result
HandleSendMessage(input) ==
    /\ result # Null
    /\ IF (Trim(input) = "" /\ ~pastedImage) \/ isLoading
       THEN IF pendingAction # Null
            THEN /\ ignoredReply' = TRUE
                 /\ UNCHANGED <<appVars, messages, isLoading, pendingAction,
                                chatCalls, imageVars, orphanCalls, traceVars>>
            ELSE UNCHANGED vars
       ELSE IF pendingAction # Null
            THEN ConfirmationReply(Trim(input))
            ELSE DispatchToAI(Trim(input))

\* A variant of ChatWithAIReturns that executes an undo at once when the
\* response asks for no confirmation.  C1 does not hold of it.
ChatWithAIReturnsExecutes(aiResponse) ==
    LET stored == /\ aiResponse.confirmationRequired
                  /\ \/ "update" \in DOMAIN aiResponse
                     \/ "add" \in DOMAIN aiResponse
                     \/ aiResponse.action = "undo"
    IN  /\ chatCalls > 0
        /\ messages' = [role |-> "model", content |-> aiResponse.responseText]
        /\ pendingAction' = IF stored THEN aiResponse ELSE pendingAction
        /\ proposedOn' = IF stored THEN result ELSE proposedOn
        /\ isLoading' = FALSE
        /\ chatCalls' = chatCalls - 1
        /\ IF ~stored /\ aiResponse.action = "undo"
           THEN HandleUndoLastChange
           ELSE UNCHANGED <<result, history, balanceMismatchWarning>>
        /\ UNCHANGED <<openingBalance, statementContent, page, upload, voice, loadingState, error,
                       extractCalls, processCalls, resetTimers, imageVars,
                       orphanCalls, ignoredReply, lastCall, extracted, beforeUpload>>

\* A variant of ChatWithAIReturns that stores every response as the
\* pending action.  C14 does not hold of it.
ChatWithAIReturnsStoresAll(aiResponse) ==
    /\ chatCalls > 0
    /\ messages' = [role |-> "model", content |-> aiResponse.responseText]
    /\ pendingAction' = aiResponse
    /\ proposedOn' = result
    /\ isLoading' = FALSE
    /\ chatCalls' = chatCalls - 1
    /\ UNCHANGED <<appVars, imageVars, orphanCalls, ignoredReply, lastCall,
                       extracted, beforeUpload>>

\* A variant of ChatWithAIReturns that stores only responses with a
\* payload.  C17 does not hold of it.
ChatWithAIReturnsDropsUndo(aiResponse) ==
    LET stored == /\ aiResponse.confirmationRequired
                  /\ \/ "update" \in DOMAIN aiResponse
                     \/ "add" \in DOMAIN aiResponse
    IN  /\ chatCalls > 0
        /\ messages' = [role |-> "model", content |-> aiResponse.responseText]
        /\ pendingAction' = IF stored THEN aiResponse ELSE pendingAction
        /\ proposedOn' = IF stored THEN result ELSE proposedOn
        /\ isLoading' = FALSE
        /\ chatCalls' = chatCalls - 1
        /\ UNCHANGED <<appVars, imageVars, orphanCalls, ignoredReply, lastCall,
                       extracted, beforeUpload>>

\* handleSendMessage after chatWithAI resolved with a response object
ChatWithAIReturns(aiResponse) ==
    LET stored == /\ aiResponse.confirmationRequired
                  /\ \/ "update" \in DOMAIN aiResponse
                     \/ "add" \in DOMAIN aiResponse
                     \/ aiResponse.action = "undo"
    IN  /\ chatCalls > 0
        /\ messages' = [role |-> "model", content |-> aiResponse.responseText]
        /\ pendingAction' = IF stored THEN aiResponse ELSE pendingAction
        /\ proposedOn' = IF stored THEN result ELSE proposedOn
        /\ isLoading' = FALSE
        /\ chatCalls' = chatCalls - 1
        /\ UNCHANGED <<appVars, imageVars, orphanCalls, ignoredReply, lastCall,
                       extracted, beforeUpload>>

\* handleSendMessage when reading the response throws (the AI's JSON is
\* not an object): the catch block
ChatWithAIThrows ==
    /\ chatCalls > 0
    /\ messages' = ChatError
    /\ isLoading' = FALSE
    /\ chatCalls' = chatCalls - 1
    /\ UNCHANGED <<appVars, pendingAction, imageVars, orphanCalls, ignoredReply, traceVars>>

---------------------------------------------------------------------------
\* the steps of the table, of the opening-balance input and of the chat
\* assistant, for cell edits of the fields F with the values V, the typed
\* opening balances B and the AI responses R
LedgerNext(F, V, B, R) ==
    \/ \E index \in 0..(MaxTx - 1), field \in F, value \in V :
           CellEdit(index, field, value)
    \/ \E typed \in B : EditOpeningBalance(typed)
    \/ \E input \in UserInputs : HandleSendMessage(input)
    \/ \E aiResponse \in R : ChatWithAIReturns(aiResponse)
    \/ ChatWithAIThrows

\* the steps of upload and processing
LoaderNext ==
    \/ \E fileNames \in UploadedNames : HandleFileChange(fileNames)
    \/ \E text \in Texts : ExtractionReturns(text)
    \/ ExtractionThrows
    \/ ResetTimerFires
    \/ HandleSubmit
    \/ \E data \in Ledgers : ProcessStatementReturns(data)
    \/ ProcessStatementThrows
    \/ \E text \in Texts : EditStatementContent(text)

\* the AI responses of the whole-application specification: those with no
\* payload, with the payload AnUpdate or an update one past the end, or
\* with the payload AnAdd
FewResponses ==
    { r \in AIResponses \cup {ApologyResponse} :
        /\ "update" \in DOMAIN r =>
               r.update \in {AnUpdate, [index |-> 1, field |-> "fee", newValue |-> 6]}
        /\ "add" \in DOMAIN r => r.add = AnAdd }

\* The whole application: upload, processing, timers, table and chat in
\* every interleaving, with few values for the edits and the AI payloads.
Next ==
    \/ LoaderNext
    \/ OrphanCallReturns
    \/ LedgerNext({"debit"}, {0}, {[text |-> "digits", value |-> 2], [text |-> "abc"]},
                  FewResponses)

Spec == Init /\ [][Next]_vars

---------------------------------------------------------------------------
(* The ledger store and the chat assistant on an installed ledger, with    *)
(* every field, index and payload: the states after handleSubmit,          *)
(* processStatement resolving and the reset timer firing, and from there   *)
(* the steps of the table, the opening-balance input and the chat.         *)

\* ledgers of one and of two transactions, with and without fee and vat
StoreLedgers ==
    { [accountInfo |-> "acct", transactions |-> ts,
       openingBalance |-> 1, endingBalance |-> e] :
         ts \in { <<Tx(3, 0)>>, <<TxFee(0, 2, 1, 0), Tx(3, 0)>> }, e \in {0, 5} }

InitStore ==
    /\ result \in StoreLedgers
    /\ history = <<result>>
    /\ extracted = result
    /\ openingBalance = NumberToString(result.openingBalance)
    /\ balanceMismatchWarning =
           RecalculateWarning(result, openingBalance, CrossCheck(result, Null))
    /\ statementContent = "statement"
    /\ loadingState = "idle"
    /\ error = Null
    /\ extractCalls = 0
    /\ processCalls = 0
    /\ resetTimers = 0
    /\ messages = Greeting
    /\ isLoading = FALSE
    /\ pendingAction = Null
    /\ chatCalls = 0
    /\ pastedImage = FALSE
    /\ imageReads = 0
    /\ conversions = 0
    /\ orphanCalls = 0
    /\ ignoredReply = FALSE
    /\ beforeUpload = Null
    /\ page = NoPage
    /\ voice = NoVoice
    /\ upload = NoUpload
    /\ lastCall = NoCall
    /\ proposedOn = Null

NextStore ==
    LedgerNext(Fields, CellValues, TypedBalances, AIResponses \cup {ApologyResponse})

SpecStore == InitStore /\ [][NextStore]_vars

---------------------------------------------------------------------------
(* ResultTable: the balance column, computed three times *)

\* generateTableData: runningBalance after the first k transactions,
\* runningBalance = runningBalance + tx.debit - tx.credit - (tx.fee || 0) - (tx.vat || 0)
RECURSIVE ExportRunningBalance(_, _, _)
ExportRunningBalance(openingBal, transactions, k) ==
    IF k = 0 THEN openingBal
    ELSE LET tx == transactions[k]
         IN  Sub(Sub(Sub(Add(ExportRunningBalance(openingBal, transactions, k - 1),
                             tx.debit), tx.credit),
                     NumOr(tx, "fee", 0)), NumOr(tx, "vat", 0))

\* transactions.slice(0, k).reduce((acc, currentTx) => acc + currentTx.debit
\*     - currentTx.credit - (currentTx.fee || 0) - (currentTx.vat || 0), 0)
RECURSIVE PrefixReduce(_, _)
PrefixReduce(transactions, k) ==
    IF k = 0 THEN 0
    ELSE LET currentTx == transactions[k]
         IN  Sub(Sub(Sub(Add(PrefixReduce(transactions, k - 1), currentTx.debit),
                         currentTx.credit),
                     NumOr(currentTx, "fee", 0)), NumOr(currentTx, "vat", 0))

\* the row rendering: currentBalance of row k (1-based)
DisplayBalance(openingBal, transactions, k) ==
    Add(openingBal, PrefixReduce(transactions, k))

\* the openingBalance prop of ResultTable: parseFloat(openingBalance) || 0
OpeningBalanceProp == ParseFloatOr0(openingBalance)

\* amounts: zero, one, and the first magnitude at which the numbers are
\* spaced by 2 (2^53 in the program)
Amounts == {0, 1, Pow2(Prec)}

\* ledgers of one and of two transactions over the amounts
BalanceLedgers ==
    { [accountInfo |-> "acct", transactions |-> ts,
       openingBalance |-> o, endingBalance |-> 0] :
         ts \in { <<Tx(d, 0)>> : d \in Amounts }
                \cup { <<TxFee(d1, 0, 1, 0), Tx(d2, c)>> :
                         d1 \in Amounts, d2 \in Amounts, c \in {0, 1} },
         o \in {0, 1} }

\* The table on an installed ledger: the states after handleSubmit, for
\* every ledger of BalanceLedgers, and from there cell edits and
\* opening-balance edits over the amounts.
InitBalance ==
    /\ result \in BalanceLedgers
    /\ history = <<result>>
    /\ extracted = result
    /\ openingBalance = NumberToString(result.openingBalance)
    /\ balanceMismatchWarning =
           RecalculateWarning(result, openingBalance, CrossCheck(result, Null))
    /\ statementContent = "statement"
    /\ loadingState = "idle"
    /\ error = Null
    /\ extractCalls = 0
    /\ processCalls = 0
    /\ resetTimers = 0
    /\ messages = Greeting
    /\ isLoading = FALSE
    /\ pendingAction = Null
    /\ chatCalls = 0
    /\ pastedImage = FALSE
    /\ imageReads = 0
    /\ conversions = 0
    /\ orphanCalls = 0
    /\ ignoredReply = FALSE
    /\ beforeUpload = Null
    /\ page = NoPage
    /\ voice = NoVoice
    /\ upload = NoUpload
    /\ lastCall = NoCall
    /\ proposedOn = Null

NextBalance ==
    \/ \E index \in 0..(MaxTx - 1), field \in {"debit", "credit"},
          value \in Amounts \ {0} :
           CellEdit(index, field, value)
    \/ \E typed \in { [text |-> "digits", value |-> v] : v \in Amounts \ {0} }
                       \cup { [text |-> "empty"] } :
           EditOpeningBalance(typed)

SpecBalance == InitBalance /\ [][NextBalance]_vars

---------------------------------------------------------------------------
(* handleTransactionAdd on every shape of payload: the states in which   *)
(* the assistant holds an add proposal, and the user's reply.            *)

\* a property of the payload: absent, falsy ('' or 0), or set
Shapes == {"absent", "falsy", "set"}

WithProp(obj, key, shape, falsy, val) ==
    CASE shape = "absent" -> obj
      [] shape = "falsy"  -> SetProp(obj, key, falsy)
      [] OTHER            -> SetProp(obj, key, val)

\* the payload with the given shape of each of its seven properties
AddPayload(c) ==
    WithProp(WithProp(WithProp(WithProp(WithProp(WithProp(WithProp(EmptyObject,
        "transactionCode", c.transactionCode, "", "T9"),
        "date", c.date, "", "03/01"),
        "description", c.description, "", "r"),
        "debit", c.debit, 0, 4),
        "credit", c.credit, 0, 2),
        "fee", c.fee, 0, 1),
        "vat", c.vat, 0, 1)

AddPayloads ==
    { AddPayload(c) : c \in [transactionCode : Shapes, date : Shapes,
                             description : Shapes, debit : Shapes,
                             credit : Shapes, fee : Shapes, vat : Shapes] }

InitAdd ==
    /\ result = [accountInfo |-> "acct", transactions |-> <<Tx(3, 0)>>,
                 openingBalance |-> 1, endingBalance |-> 5]
    /\ history = <<result>>
    /\ extracted = result
    /\ openingBalance = NumberToString(result.openingBalance)
    /\ balanceMismatchWarning =
           RecalculateWarning(result, openingBalance, CrossCheck(result, Null))
    /\ statementContent = "statement"
    /\ loadingState = "idle"
    /\ error = Null
    /\ extractCalls = 0
    /\ processCalls = 0
    /\ resetTimers = 0
    /\ messages = [role |-> "model", content |-> "reply"]
    /\ isLoading = FALSE
    /\ pendingAction \in { [responseText |-> "reply", action |-> "add", add |-> t,
                            confirmationRequired |-> TRUE] : t \in AddPayloads }
    /\ chatCalls = 0
    /\ pastedImage = FALSE
    /\ imageReads = 0
    /\ conversions = 0
    /\ orphanCalls = 0
    /\ ignoredReply = FALSE
    /\ beforeUpload = Null
    /\ page = NoPage
    /\ voice = NoVoice
    /\ upload = NoUpload
    /\ lastCall = NoCall
    /\ proposedOn = result

NextAdd == \E input \in UserInputs : HandleSendMessage(input)

SpecAdd == InitAdd /\ [][NextAdd]_vars

---------------------------------------------------------------------------
(* The chat assistant on an installed ledger, with pasted images: the    *)
(* states after handleSubmit, and from there messages, AI responses,     *)
(* pastes, image reads and conversions in every interleaving, and one    *)
(* cell edit.                                                            *)

\* what the user submits in the chat box: the inputs of UserInputs, an
\* affirmative token with punctuation, and a new request
ChatInputs == UserInputs \cup {"ok!", "sua dong 1"}

InitChat ==
    /\ result = [accountInfo |-> "acct", transactions |-> <<Tx(3, 0)>>,
                 openingBalance |-> 1, endingBalance |-> 5]
    /\ history = <<result>>
    /\ extracted = result
    /\ openingBalance = NumberToString(result.openingBalance)
    /\ balanceMismatchWarning =
           RecalculateWarning(result, openingBalance, CrossCheck(result, Null))
    /\ statementContent = "statement"
    /\ loadingState = "idle"
    /\ error = Null
    /\ extractCalls = 0
    /\ processCalls = 0
    /\ resetTimers = 0
    /\ messages = Greeting
    /\ isLoading = FALSE
    /\ pendingAction = Null
    /\ chatCalls = 0
    /\ pastedImage = FALSE
    /\ imageReads = 0
    /\ conversions = 0
    /\ orphanCalls = 0
    /\ ignoredReply = FALSE
    /\ beforeUpload = Null
    /\ page = NoPage
    /\ voice = NoVoice
    /\ upload = NoUpload
    /\ lastCall = NoCall
    /\ proposedOn = Null

NextChat ==
    \/ \E input \in ChatInputs : HandleSendMessage(input)
    \/ \E aiResponse \in FewResponses : ChatWithAIReturns(aiResponse)
    \/ ChatWithAIThrows
    \/ ConversionReturns
    \/ HandlePaste
    \/ ImageReadCompletes
    \/ RemovePastedImage
    \/ CellEdit(0, "debit", 0)

SpecChat == InitChat /\ [][NextChat]_vars

\* fileToGenerativePart when the FileReader ends with an error: the
\* promise has no reject and the reader no onerror, so it never settles
\* and the continuation of handleSendMessage (setPastedImage(null), the
\* call, the catch and the finally block) never runs
ConversionNeverSettles ==
    /\ conversions > 0
    /\ conversions' = conversions - 1
    /\ UNCHANGED <<appVars, messages, isLoading, pendingAction, chatCalls,
                   pastedImage, imageReads, orphanCalls, ignoredReply, traceVars>>

\* the AI service answers or fails: the continuation of handleSendMessage
\* after await chatWithAI(...)
ChatWithAISettles ==
    \/ \E aiResponse \in FewResponses : ChatWithAIReturns(aiResponse)
    \/ ChatWithAIThrows

\* the FileReader of fileToGenerativePart ends, with a load or an error
ConversionEnds == ConversionReturns \/ ConversionNeverSettles

NextChatLive == NextChat \/ ConversionNeverSettles

\* the chat assistant with an AI service that eventually answers or fails
\* every call and file readers that eventually end
SpecChatLive ==
    /\ InitChat
    /\ [][NextChatLive]_vars
    /\ WF_vars(ChatWithAISettles)
    /\ WF_vars(ConversionEnds)

---------------------------------------------------------------------------
(* The upload of files: the extractions of the files of an upload        *)
(* resolve in any order or reject, then the OCR of the images resolves   *)
(* or rejects; one upload at a time.                                     *)

\* the uploads: UploadedNames, and lists with an image before the texts
\* and with an empty text file
UploadLists == UploadedNames \cup {<<"b", "c", "a">>, <<"c", "e", "a">>, <<"d">>, <<"e">>}

InitUpload ==
    /\ openingBalance = EmptyText
    /\ statementContent \in Texts
    /\ loadingState = "idle"
    /\ error = Null
    /\ result = Null
    /\ balanceMismatchWarning = Null
    /\ history = <<>>
    /\ extractCalls = 0
    /\ processCalls = 0
    /\ resetTimers = 0
    /\ messages = Greeting
    /\ isLoading = FALSE
    /\ pendingAction = Null
    /\ chatCalls = 0
    /\ pastedImage = FALSE
    /\ imageReads = 0
    /\ conversions = 0
    /\ orphanCalls = 0
    /\ ignoredReply = FALSE
    /\ beforeUpload = Null
    /\ lastCall = NoCall
    /\ proposedOn = Null
    /\ extracted = Null
    /\ page = NoPage
    /\ voice = NoVoice
    /\ upload = [status |-> "none", files |-> <<>>, results |-> <<>>,
                 order |-> <<>>, failedBefore |-> FALSE]

\* the files whose extraction has resolved
Completed(u) == { u.order[k] : k \in 1..Len(u.order) }

\* handleFileChange with the files fileNames, no upload being in progress
ChooseFiles(fileNames) ==
    /\ upload.status # "extracting"
    /\ HandleFileChange(fileNames)

\* extractFromFile of the i-th file resolves
ExtractFromFileResolves(i) ==
    /\ upload.status = "extracting"
    /\ i \in 1..Len(upload.files)
    /\ i \notin Completed(upload)
    /\ upload' = [upload EXCEPT
                     !.results = Resolved(@, i, FileResult(upload.files[i])),
                     !.order = Append(@, i)]
    /\ UNCHANGED <<openingBalance, statementContent, page, voice, loadingState, error,
                   result, balanceMismatchWarning, history, extractCalls, processCalls,
                   resetTimers, chatVars, traceVars>>

\* extractFromFile of the i-th file rejects: Promise.all rejects, the
\* catch block runs
ExtractFromFileRejects(i) ==
    /\ upload.status = "extracting"
    /\ i \in 1..Len(upload.files)
    /\ i \notin Completed(upload)
    /\ ExtractionThrows

\* Promise.all has resolved; the OCR of the images, when there are any,
\* resolves, and the combined text is installed
CombinedTextInstalled ==
    /\ upload.status = "extracting"
    /\ Len(upload.order) = Len(upload.files)
    /\ \E textFromImages \in OcrTexts(AllImages(upload.results, Len(upload.files))) :
           ExtractionReturns(CombinedText(upload.results, Len(upload.files),
                                          textFromImages))

\* Promise.all has resolved and extractTextFromContent rejects
ExtractTextFromContentRejects ==
    /\ upload.status = "extracting"
    /\ Len(upload.order) = Len(upload.files)
    /\ Len(AllImages(upload.results, Len(upload.files))) > 0
    /\ ExtractionThrows

NextUpload ==
    \/ \E fileNames \in UploadLists : ChooseFiles(fileNames)
    \/ \E i \in 1..MaxFiles : ExtractFromFileResolves(i)
    \/ \E i \in 1..MaxFiles : ExtractFromFileRejects(i)
    \/ CombinedTextInstalled
    \/ ExtractTextFromContentRejects
    \/ ResetTimerFires

SpecUpload == InitUpload /\ [][NextUpload]_vars

---------------------------------------------------------------------------
(* The table with voice input on an installed ledger: the microphone     *)
(* buttons of the cells, the events of the recognizers, and one cell     *)
(* edit.                                                                 *)

InitVoice ==
    /\ result = [accountInfo |-> "acct", transactions |-> <<Tx(3, 0)>>,
                 openingBalance |-> 1, endingBalance |-> 5]
    /\ history = <<result>>
    /\ extracted = result
    /\ openingBalance = NumberToString(result.openingBalance)
    /\ balanceMismatchWarning =
           RecalculateWarning(result, openingBalance, CrossCheck(result, Null))
    /\ statementContent = "statement"
    /\ loadingState = "idle"
    /\ error = Null
    /\ extractCalls = 0
    /\ processCalls = 0
    /\ resetTimers = 0
    /\ messages = Greeting
    /\ isLoading = FALSE
    /\ pendingAction = Null
    /\ chatCalls = 0
    /\ pastedImage = FALSE
    /\ imageReads = 0
    /\ conversions = 0
    /\ orphanCalls = 0
    /\ ignoredReply = FALSE
    /\ beforeUpload = Null
    /\ lastCall = NoCall
    /\ proposedOn = Null
    /\ page = NoPage
    /\ voice = [listeningFor |-> Null,
                recognizers |-> <<Recognizer(Null, result)>>,
                heard |-> Null]
    /\ upload = NoUpload

NextVoice ==
    \/ \E index \in 0..(MaxTx - 1), field \in {"debit", "fee"} :
           HandleVoiceInput(index, field)
    \/ \E r \in 1..MaxRecognizers, transcript \in Transcripts : OnResult(r, transcript)
    \/ \E r \in 1..MaxRecognizers : OnEnd(r)
    \/ CellEdit(0, "debit", 0)

SpecVoice == InitVoice /\ [][NextVoice]_vars

---------------------------------------------------------------------------
(* The application with its localStorage, across reloads of the page:    *)
(* upload, processing, one cell edit, confirmations in the chat, and the *)
(* reload at any moment.                                                 *)

\* what localStorage holds when the page is opened for the first time:
\* nothing, or the items an earlier visit left
StoredBefore ==
    { <<>> } \cup [statementContent : Texts, fileName : {"", "a"}]

\* App on the storage stored after its first render: the useState
\* initialisers have read the two items, the effects have written them back
MountedPage(stored, loads) ==
    LET name == GetItemOrEmpty(stored, "fileName")
        text == GetItemOrEmpty(stored, "statementContent")
    IN  [fileName |-> name,
         localStorage |-> SetItem(SetItem(stored, "fileName", name),
                                  "statementContent", text),
         reloads |-> loads,
         left |-> FALSE]

InitReload ==
    /\ \E stored \in StoredBefore :
           /\ page = MountedPage(stored, 0)
           /\ statementContent = GetItemOrEmpty(stored, "statementContent")
    /\ openingBalance = EmptyText
    /\ loadingState = "idle"
    /\ error = Null
    /\ result = Null
    /\ balanceMismatchWarning = Null
    /\ history = <<>>
    /\ extractCalls = 0
    /\ processCalls = 0
    /\ resetTimers = 0
    /\ messages = Greeting
    /\ isLoading = FALSE
    /\ pendingAction = Null
    /\ chatCalls = 0
    /\ pastedImage = FALSE
    /\ imageReads = 0
    /\ conversions = 0
    /\ orphanCalls = 0
    /\ ignoredReply = FALSE
    /\ beforeUpload = Null
    /\ lastCall = NoCall
    /\ proposedOn = Null
    /\ extracted = Null
    /\ voice = NoVoice
    /\ upload = NoUpload

\* the page is reloaded: the document with its pending calls and timers is
\* gone, App is constructed again on the storage the page left; left
\* records whether the page left showed an edited ledger of an uploaded
\* statement with an action pending in the chat
Reload ==
    /\ page # NoPage
    /\ page.reloads < MaxReloads
    /\ page' = [MountedPage(page.localStorage, page.reloads + 1) EXCEPT
                   !.left = /\ result # Null
                            /\ Len(history) > 1
                            /\ pendingAction # Null
                            /\ statementContent # ""
                            /\ page.fileName # ""]
    /\ statementContent' = GetItemOrEmpty(page.localStorage, "statementContent")
    /\ openingBalance' = EmptyText
    /\ loadingState' = "idle"
    /\ error' = Null
    /\ result' = Null
    /\ balanceMismatchWarning' = Null
    /\ history' = <<>>
    /\ extractCalls' = 0
    /\ processCalls' = 0
    /\ resetTimers' = 0
    /\ messages' = Greeting
    /\ isLoading' = FALSE
    /\ pendingAction' = Null
    /\ chatCalls' = 0
    /\ pastedImage' = FALSE
    /\ imageReads' = 0
    /\ conversions' = 0
    /\ orphanCalls' = 0
    /\ ignoredReply' = FALSE
    /\ beforeUpload' = Null
    /\ lastCall' = NoCall
    /\ proposedOn' = Null
    /\ extracted' = Null
    /\ UNCHANGED <<voice, upload>>

\* the AI responses of the specification with reloads: an undo to confirm
ReloadResponses ==
    { r \in FewResponses : r.action = "undo" /\ r.confirmationRequired }

NextReload ==
    \/ LoaderNext
    \/ Reload
    \/ OrphanCallReturns
    \/ CellEdit(0, "debit", 0)
    \/ \E input \in {"ok", "sua dong 1"} : HandleSendMessage(input)
    \/ \E aiResponse \in ReloadResponses : ChatWithAIReturns(aiResponse)

SpecReload == InitReload /\ [][NextReload]_vars

---------------------------------------------------------------------------
(* Claims *)

\* the step is the reply to a pending action that was taken as a yes / as a no
AffirmativeStep == pendingAction # Null /\ messages' = Confirmed
DeclineStep     == pendingAction # Null /\ messages' = Cancelled

\* C1: a step of the chat assistant (handleSendMessage up to its await,
\* the continuation after chatWithAI resolved, the catch block) changes
\* the ledger or the history only if a pending action is set and the
\* user's message is an affirmative token; the continuation and the catch
\* block never change them, whatever the response carries.
C1_ChatChangesLedgerOnlyOnConfirmation ==
    [][ <<result, history>>' # <<result, history>> =>
          /\ \A input \in UserInputs :
                HandleSendMessage(input)
                    => pendingAction # Null /\ IsAffirmative(Trim(input))
          /\ \A aiResponse \in AIResponses \cup {ApologyResponse} :
                ~ChatWithAIReturns(aiResponse)
          /\ ~ChatWithAIThrows ]_vars

\* C1 witness: a response with an update payload and confirmationRequired
\* has arrived and is stored, and the ledger is still the extracted one
C1_Witness ==
    /\ pendingAction # Null
    /\ pendingAction.action = "update"
    /\ "update" \in DOMAIN pendingAction
    /\ result = extracted
    /\ history = <<extracted>>

\* the affirmative reply executes an update / an add / an undo
UpdateStep ==
    AffirmativeStep /\ pendingAction.action = "update" /\ "update" \in DOMAIN pendingAction
AddStep ==
    AffirmativeStep /\ pendingAction.action = "add" /\ "add" \in DOMAIN pendingAction
UndoStep ==
    AffirmativeStep /\ pendingAction.action = "undo"

\* accountInfo, openingBalance and endingBalance of the ledger are kept
LedgerHeaderKept ==
    /\ DOMAIN result' = DOMAIN result
    /\ result'.accountInfo = result.accountInfo
    /\ result'.openingBalance = result.openingBalance
    /\ result'.endingBalance = result.endingBalance

\* C2: a confirmed update of field f at index i with value v leaves a
\* ledger whose transactions[i].f is v and which is otherwise the prior
\* one: every other transaction, every other property of transaction i,
\* accountInfo, openingBalance and endingBalance are unchanged; and the
\* history is the prior history with the prior ledger appended.
C2_ConfirmedUpdateFrame ==
    [][ UpdateStep =>
          LET i   == pendingAction.update.index
              f   == pendingAction.update.field
              v   == pendingAction.update.newValue
              old == result.transactions
              new == result'.transactions
          IN  /\ LedgerHeaderKept
              /\ Len(new) = IF i < Len(old) THEN Len(old) ELSE i + 1
              /\ \A j \in 0..(Len(old) - 1) : j # i => At(new, j) = At(old, j)
              /\ f \in DOMAIN At(new, i) /\ At(new, i)[f] = v
              /\ \A k \in DOMAIN At(new, i) \ {f} :
                     /\ i < Len(old)
                     /\ k \in DOMAIN At(old, i)
                     /\ At(new, i)[k] = At(old, i)[k]
              /\ i < Len(old) => DOMAIN At(old, i) \subseteq DOMAIN At(new, i)
              /\ history' = Append(history, result) ]_vars

\* C2 witness: the chat update of vat of the second of two transactions
\* has been applied: vat is 6 there, the first transaction and the pushed
\* snapshot are the original ones
C2_Witness ==
    /\ lastCall.op = "update" /\ lastCall.via = "chat"
    /\ result # Null
    /\ Len(result.transactions) = 2
    /\ result.transactions[1] = TxFee(0, 2, 1, 0)
    /\ "vat" \in DOMAIN result.transactions[2]
    /\ result.transactions[2].vat = 6
    /\ history[Len(history)].transactions = <<TxFee(0, 2, 1, 0), Tx(3, 0)>>

C4_HistoryStartsAtExtraction ==
    result # Null => Len(history) >= 1 /\ history[1] = extracted

\* C4 witness: after an edit and an undo the ledger and the snapshots
\* differ from the extraction result, the first entry does not
C4_Witness ==
    /\ result # Null
    /\ lastCall.op = "undo"
    /\ Len(history) >= 2
    /\ result # extracted
    /\ history[1] = extracted

\* C5: an undo called with at most one history entry changes neither the
\* ledger nor the history (so repeating it changes nothing either).
C5_UndoAtBoundaryIsNoOp ==
    [][ UndoStep /\ Len(history) <= 1 => UNCHANGED <<result, history>> ]_vars

\* C5 witness: undo has been called on a history of one entry
C5_Witness ==
    /\ lastCall = [op |-> "undo", via |-> "chat", len |-> 1]
    /\ Len(history) = 1
    /\ result = history[1]

\* C6: with more than one entry, undo installs the last snapshot and drops
\* exactly that entry; every mutation pushes the ledger it replaces, so a
\* mutation followed by an undo restores ledger and history; and when the
\* history is back to one entry the ledger is the extraction result.
C6_UndoPopsLastSnapshot ==
    [][ /\ UndoStep /\ Len(history) > 1 =>
               /\ result' = history[Len(history)]
               /\ history' = SubSeq(history, 1, Len(history) - 1)
        /\ Len(history') > Len(history) /\ result # Null =>
               /\ history' = Append(history, result)
               /\ lastCall'.op \in {"update", "add"}
        /\ result' # Null /\ Len(history') = 1 => result' = extracted' ]_vars

\* C6 witness: the undo that was called on two entries has led back to the
\* extraction result
C6_Witness ==
    /\ lastCall = [op |-> "undo", via |-> "chat", len |-> 2]
    /\ Len(history) = 1
    /\ result = extracted

\* C9: a confirmed add on n transactions leaves n + 1, the first n the
\* previous ones in order, the last the stored new one; accountInfo,
\* openingBalance and endingBalance are unchanged; the history is the
\* prior history with the prior ledger appended.
C9_AddAppends ==
    [][ AddStep =>
          LET old == result.transactions
              new == result'.transactions
          IN  /\ LedgerHeaderKept
              /\ Len(new) = Len(old) + 1
              /\ SubSeq(new, 1, Len(old)) = old
              /\ new[Len(new)] = NewTransaction(pendingAction.add)
              /\ history' = Append(history, result) ]_vars

\* C9 witness: the transaction dated 03/01 has been added after the one
\* dated 05/01
C9_Witness ==
    /\ lastCall.op = "add"
    /\ result # Null
    /\ Len(result.transactions) = 2
    /\ result.transactions[1] = Tx(3, 0)
    /\ result.transactions[2].date = "03/01"
    /\ history[Len(history)].transactions = <<Tx(3, 0)>>

\* sum(field) over the transactions, exactly, a missing value counted as 0
RECURSIVE SumOf(_, _)
SumOf(transactions, field) ==
    IF transactions = <<>> THEN 0
    ELSE NumOr(Head(transactions), field, 0) + SumOf(Tail(transactions), field)

\* current opening balance + sum(debit) - sum(credit) - sum(fee) - sum(vat)
ComputedEnding ==
    ParseFloatOr0(openingBalance) + SumOf(result.transactions, "debit")
        - SumOf(result.transactions, "credit") - SumOf(result.transactions, "fee")
        - SumOf(result.transactions, "vat")

\* C7: in every reachable state with a ledger the warning is present if
\* and only if the declared ending balance is non-zero and differs from
\* the computed one by more than 1; with no ledger there is no warning.
C7_WarningIffMismatch ==
    IF result = Null
    THEN balanceMismatchWarning = Null
    ELSE balanceMismatchWarning # Null
             <=> /\ result.endingBalance # 0
                 /\ Abs(ComputedEnding - result.endingBalance) > 1

\* C8: on every row the export's running balance and the displayed
\* balance are equal and satisfy balance_k = balance_(k-1) + debit_k -
\* credit_k - fee_k - vat_k with balance_0 the opening balance, and the
\* balance of the last row equals the totals row's ending balance.
C8_RunningBalancesAgree ==
    result # Null =>
        LET ob == OpeningBalanceProp
            ts == result.transactions
        IN  /\ \A k \in 1..Len(ts) :
                   /\ ExportRunningBalance(ob, ts, k) = DisplayBalance(ob, ts, k)
                   /\ DisplayBalance(ob, ts, k) =
                          DisplayBalance(ob, ts, k - 1) + ts[k].debit - ts[k].credit
                              - NumOr(ts[k], "fee", 0) - NumOr(ts[k], "vat", 0)
            /\ ExportRunningBalance(ob, ts, Len(ts)) = CalculatedEndingBalance(ob, ts)

\* the seven properties of a stored transaction
StoredProps == {"transactionCode", "date", "description", "debit", "credit", "fee", "vat"}

\* the transaction the add step has stored, and its payload
StoredLast == result'.transactions[Len(result'.transactions)]

\* C10 as claimed: the stored transaction has all seven properties, every
\* property of the payload is stored as supplied, a missing date is the
\* current date, a missing description the placeholder, a missing
\* transactionCode '' and every missing numeric field 0.
C10_SuppliedStoredAsSupplied ==
    [][ AddStep =>
          LET p == pendingAction.add
              t == StoredLast
          IN  /\ DOMAIN t = StoredProps
              /\ \A k \in DOMAIN p : t[k] = p[k]
              /\ "date" \notin DOMAIN p => t.date = Today
              /\ "description" \notin DOMAIN p => t.description = Placeholder
              /\ "transactionCode" \notin DOMAIN p => t.transactionCode = ""
              /\ \A k \in Fields \ DOMAIN p : t[k] = 0 ]_vars

\* C10 amended: the stored transaction has all seven properties; a date
\* that is missing or '' becomes the current date, a description that is
\* missing or '' becomes the placeholder, a missing transactionCode
\* becomes '', every missing numeric field becomes 0, and every other
\* supplied property is stored as supplied.
C10_DefaultsForMissingOrEmpty ==
    [][ AddStep =>
          LET p == pendingAction.add
              t == StoredLast
          IN  /\ DOMAIN t = StoredProps
              /\ t.transactionCode =
                     IF "transactionCode" \in DOMAIN p THEN p.transactionCode ELSE ""
              /\ t.date =
                     IF "date" \in DOMAIN p /\ p.date # "" THEN p.date ELSE Today
              /\ t.description =
                     IF "description" \in DOMAIN p /\ p.description # ""
                     THEN p.description ELSE Placeholder
              /\ \A k \in Fields : t[k] = IF k \in DOMAIN p THEN p[k] ELSE 0 ]_vars

\* C10 witness: of a payload with only a debit and an empty description,
\* the debit is stored and every other property has its default
C10_Witness ==
    /\ lastCall.op = "add"
    /\ messages = Confirmed
    /\ result.transactions[Len(result.transactions)] =
           [transactionCode |-> "", date |-> Today, description |-> Placeholder,
            debit |-> 4, credit |-> 0, fee |-> 0, vat |-> 0]

\* the protocol awaits the reply to a proposal
AwaitingConfirmation == result # Null /\ pendingAction # Null

\* the reply is taken as a yes: the pending action is resolved with the
\* confirmation message; as a no: with the cancellation message, the
\* ledger untouched; in both cases nothing goes to the AI
TakenAsYes ==
    /\ messages' = Confirmed
    /\ pendingAction' = Null
    /\ chatCalls' = chatCalls /\ conversions' = conversions
TakenAsNo ==
    /\ messages' = Cancelled
    /\ pendingAction' = Null
    /\ UNCHANGED <<result, history>>
    /\ chatCalls' = chatCalls /\ conversions' = conversions

\* the step is the handling of the submitted text input while the protocol
\* awaits a reply
ReplyStep(input) ==
    /\ AwaitingConfirmation
    /\ messages' # messages \/ ignoredReply' # ignoredReply
    /\ HandleSendMessage(input)

\* C11 as claimed: in AwaitingConfirmation a message is taken as a yes if
\* and only if its trimmed, lower-cased text is an element of the
\* affirmative list, and every other message, the empty one included, is
\* taken as a no and does not go to the AI.
C11_EveryOtherMessageDeclines ==
    [][ \A input \in ChatInputs :
            ReplyStep(input) =>
                IF ToLowerCase(Trim(input)) \in AffirmativeAnswers
                THEN TakenAsYes
                ELSE TakenAsNo ]_vars

\* C11 amended: in AwaitingConfirmation a message whose trimmed text is
\* empty and that carries no image is ignored (the action stays pending,
\* nothing is shown); any other message is taken as a yes if and only if
\* its trimmed, lower-cased text is an element of the affirmative list,
\* and as a no otherwise; none goes to the AI.
C11_ExactMatchOrDecline ==
    [][ \A input \in ChatInputs :
            ReplyStep(input) =>
                IF Trim(input) = "" /\ ~pastedImage
                THEN UNCHANGED <<appVars, messages, isLoading, pendingAction,
                                 chatCalls, imageVars>>
                ELSE IF ToLowerCase(Trim(input)) \in AffirmativeAnswers
                THEN TakenAsYes
                ELSE TakenAsNo ]_vars

\* C11 witness: a blank reply has been ignored and the protocol still
\* awaits the reply
C11_Witness ==
    /\ AwaitingConfirmation
    /\ ignoredReply
    /\ ~isLoading

\* the ledger operation that matches the kind of the pending action is
\* applied in the step, with the stored payload
MatchingOperationApplied ==
    CASE pendingAction.action = "update" ->
            /\ "update" \in DOMAIN pendingAction
            /\ HandleTransactionUpdate(pendingAction.update.index,
                                       pendingAction.update.field,
                                       pendingAction.update.newValue)
            /\ lastCall' = [op |-> "update", via |-> "chat", len |-> Len(history)]
      [] pendingAction.action = "add" ->
            /\ "add" \in DOMAIN pendingAction
            /\ HandleTransactionAdd(pendingAction.add)
            /\ lastCall' = [op |-> "add", via |-> "chat", len |-> Len(history)]
      [] pendingAction.action = "undo" ->
            /\ HandleUndoLastChange
            /\ lastCall' = [op |-> "undo", via |-> "chat", len |-> Len(history)]
      [] OTHER -> FALSE

\* C12: on an affirmative reply in AwaitingConfirmation the ledger
\* operation matching the kind of the pending action (update, add, undo)
\* is applied once with the stored payload, the fixed confirmation message
\* is shown, the pending action is cleared and the assistant is idle again.
C12_AffirmativeAppliesPending ==
    [][ \A input \in UserInputs :
            ( /\ AwaitingConfirmation
              /\ pendingAction.action \in {"update", "add", "undo"}
              /\ messages' # messages
              /\ IsAffirmative(Trim(input))
              /\ HandleSendMessage(input) )
            => /\ MatchingOperationApplied
               /\ messages' = Confirmed
               /\ pendingAction' = Null
               /\ ~isLoading' ]_vars

\* the number of calls of the AI on behalf of the chat that have been
\* started and have not returned: conversions of an image that go on to
\* the call, calls of the mounted assistant and of unmounted ones
OutstandingAICalls == conversions + chatCalls + orphanCalls

\* C13: a message sent while an action is pending never starts a call of
\* the AI, whether it is affirmative or not; a call is started only by a
\* message sent while no action is pending.
C13_PendingReplyNeverCallsAI ==
    [][ /\ pendingAction # Null => OutstandingAICalls' <= OutstandingAICalls
        /\ OutstandingAICalls' > OutstandingAICalls =>
              /\ pendingAction = Null
              /\ \E input \in ChatInputs : HandleSendMessage(input) ]_vars

\* C13 witness: the reply to a pending action has been taken as a no, and
\* no call of the AI is outstanding
C13_Witness ==
    /\ messages = Cancelled
    /\ pendingAction = Null
    /\ OutstandingAICalls = 0
    /\ ~isLoading

\* the step is the continuation of handleSendMessage after a call of the
\* AI that failed: chatWithAI caught the error (a rejected request, a text
\* that JSON.parse rejects) and returned its apology, or the parsed value
\* was not an object and handleSendMessage caught the error
FailedCallStep ==
    /\ chatCalls > 0
    /\ chatCalls' = chatCalls - 1
    /\ ChatWithAIReturns(ApologyResponse) \/ ChatWithAIThrows

\* C14: when the call of the AI fails or returns what cannot be parsed,
\* the assistant shows a generic apology, no pending action is created
\* (the assistant is idle afterwards), and the ledger and the history are
\* unchanged.
C14_FailedCallApologises ==
    [][ FailedCallStep =>
          /\ messages' \in {[role |-> "model", content |-> ApologyResponse.responseText],
                            ChatError}
          /\ pendingAction' = Null
          /\ ~isLoading'
          /\ UNCHANGED <<result, history, balanceMismatchWarning>> ]_vars

\* C14 witness: the apology of chatWithAI is the last message, on a ledger
\* that has been edited, and the assistant is idle
C14_Witness ==
    /\ result # Null
    /\ Len(history) > 1
    /\ messages = [role |-> "model", content |-> ApologyResponse.responseText]
    /\ pendingAction = Null
    /\ ~isLoading

\* C15 as claimed: at most one call of the AI on behalf of the chat is
\* outstanding at any time.
C15_OneCallOutstanding == OutstandingAICalls <= 1

\* C15 amended: at most one call of the AI is outstanding for the
\* assistant that is mounted (a message submitted while it has not
\* returned is not dispatched), the response to a call of an assistant
\* that was unmounted by a new upload or submit changes nothing, and a
\* pending action is never overwritten by another proposal: it is only
\* ever cleared.
C15_OneCallPerAssistant ==
    [][ /\ conversions' + chatCalls' <= 1
        /\ conversions' + chatCalls' = 1 => isLoading' /\ pendingAction' = Null
        /\ orphanCalls' < orphanCalls =>
               UNCHANGED <<appVars, messages, isLoading, pendingAction>>
        /\ pendingAction # Null => pendingAction' \in {pendingAction, Null} ]_vars

\* C15 witness: the call of the mounted assistant is outstanding while the
\* call of an assistant that was unmounted has not returned either
C15_Witness ==
    /\ result # Null
    /\ chatCalls = 1
    /\ orphanCalls = 1
    /\ isLoading

\* C16: from Idle, when the response of the AI has the action query, the
\* assistant shows the response text and stays idle with no pending
\* action, whatever other fields the response carries.
C16_QueryStaysIdle ==
    [][ \A aiResponse \in FewResponses :
            ( /\ pendingAction = Null
              /\ aiResponse.action = "query"
              /\ ChatWithAIReturns(aiResponse) )
            => /\ messages' = [role |-> "model", content |-> aiResponse.responseText]
               /\ pendingAction' = Null
               /\ ~isLoading' ]_vars

\* C17 as claimed: from Idle, when the response of the AI has an action
\* among update, add and undo and confirmationRequired is true, the
\* response is stored as the pending action, its responseText is shown as
\* the reply, and the protocol awaits the confirmation.
C17_ProposalIsStored ==
    [][ \A aiResponse \in FewResponses :
            ( /\ pendingAction = Null
              /\ aiResponse.action \in {"update", "add", "undo"}
              /\ aiResponse.confirmationRequired
              /\ ChatWithAIReturns(aiResponse) )
            => /\ messages' = [role |-> "model", content |-> aiResponse.responseText]
               /\ pendingAction' = aiResponse
               /\ ~isLoading' ]_vars

\* C17 amended: from Idle, when the response of the AI has an action among
\* update, add and undo, confirmationRequired is true, and the response
\* carries an update payload or an add payload or its action is undo, the
\* response is stored as the pending action, its responseText is shown as
\* the reply, and the protocol awaits the confirmation; a response with
\* the action update or add and no payload at all is shown and not
\* stored.
C17_ProposalWithPayloadIsStored ==
    [][ \A aiResponse \in FewResponses :
            ( /\ pendingAction = Null
              /\ aiResponse.action \in {"update", "add", "undo"}
              /\ aiResponse.confirmationRequired
              /\ ChatWithAIReturns(aiResponse) )
            => /\ messages' = [role |-> "model", content |-> aiResponse.responseText]
               /\ ~isLoading'
               /\ IF \/ aiResponse.action = "undo"
                     \/ "update" \in DOMAIN aiResponse
                     \/ "add" \in DOMAIN aiResponse
                  THEN pendingAction' = aiResponse
                  ELSE pendingAction' = Null ]_vars

\* C17 witness: a response with the action undo and confirmationRequired
\* has arrived; it is stored, its text is shown and the assistant awaits
\* the reply
C17_Witness ==
    /\ AwaitingConfirmation
    /\ pendingAction.action = "undo"
    /\ pendingAction.confirmationRequired
    /\ messages = [role |-> "model", content |-> pendingAction.responseText]
    /\ ~isLoading

\* C18: no image is attached while the protocol awaits a confirmation:
\* in every interleaving of paste events, completions of the image read,
\* message sends and responses of the AI, a pending action implies that
\* pastedImage is null, and the reply to a pending action carries no image.
C18_NoImageWhilePending ==
    [][ /\ pendingAction' # Null => ~pastedImage'
        /\ pendingAction # Null /\ messages'.role = "user" =>
               "image" \notin DOMAIN messages' ]_vars

\* C19: when processStatement fails no ledger is installed (result is
\* null and the history is empty), an error string is set, and the
\* loading state returns to idle (the timer of finishProgress that sets it
\* is pending).
C19_FailedProcessingInstallsNothing ==
    [][ ProcessStatementThrows =>
          /\ result' = Null
          /\ history' = <<>>
          /\ error' # Null
          /\ resetTimers' > 0 ]_vars

\* C20: when the extraction of an upload fails, an error message is set
\* and the state of before the upload started is left intact: a ledger
\* that was displayed is still displayed, a statement text and an opening
\* balance that were there are still there.
C20_FailedUploadKeepsPriorState ==
    [][ ExtractionThrows /\ beforeUpload # Null =>
          /\ error' # Null
          /\ beforeUpload.result => result' # Null
          /\ beforeUpload.statementContent => statementContent' # ""
          /\ beforeUpload.openingBalance => openingBalance' # EmptyText ]_vars

\* the step applies handleTransactionUpdate to the ledger, from a cell of
\* the table or from a confirmed chat update
AppliedUpdateStep ==
    /\ result # Null
    /\ Len(history') > Len(history)
    /\ lastCall'.op = "update"

\* C23: every update that is applied, from a cell edit or a confirmed chat
\* update, has an index within the transactions of the current ledger and
\* a field among debit, credit, fee and vat; so it never changes the
\* number of transactions and never leaves a transaction without date,
\* description, debit or credit.
C23_UpdateWithinBounds ==
    [][ AppliedUpdateStep =>
          /\ Len(result'.transactions) = Len(result.transactions)
          /\ \A j \in 1..Len(result'.transactions) :
                {"date", "description", "debit", "credit"}
                    \subseteq DOMAIN result'.transactions[j] ]_vars

\* accountInfo, openingBalance and endingBalance of a ledger
Header(res) ==
    [accountInfo |-> res.accountInfo, openingBalance |-> res.openingBalance,
     endingBalance |-> res.endingBalance]

\* C24: between two extractions no sequence of updates, adds and undos
\* changes accountInfo, openingBalance or endingBalance: the ledger and
\* every snapshot of the history carry the values of the extraction result.
C24_HeaderIsTheExtractedOne ==
    result # Null =>
        /\ Header(result) = Header(extracted)
        /\ \A i \in 1..Len(history) : Header(history[i]) = Header(extracted)

\* C24 witness: after an update and an add the history holds three
\* snapshots and the transactions are no longer the extracted ones
C24_Witness ==
    /\ result # Null
    /\ Len(history) = 3
    /\ lastCall.op = "add"
    /\ history[Len(history)].transactions # extracted.transactions
    /\ Len(result.transactions) > Len(extracted.transactions)

\* C26: while an extraction or a processStatement call is outstanding the
\* loading state is not idle, whatever reset timer of an earlier operation
\* is pending; so at most one extraction or processing is in flight.
C26_LoadingWhileCallOutstanding ==
    /\ extractCalls + processCalls > 0 => loadingState # "idle"
    /\ extractCalls + processCalls <= 1

\* C27: whenever the assistant shows the fixed confirmation message, a
\* ledger operation was applied in that step: the ledger or the history
\* differs from its value before the affirmative reply, for every pending
\* action that can be stored and every length of the history.
C27_ConfirmationMeansApplied ==
    [][ AffirmativeStep => <<result, history>>' # <<result, history>> ]_vars

\* ledger b is ledger a after at most one update or add: the same
\* accountInfo, openingBalance and endingBalance, at most one transaction
\* more, and at most one of a's transactions replaced
DerivedInOneStep(a, b) ==
    /\ Header(b) = Header(a)
    /\ Len(b.transactions) \in {Len(a.transactions), Len(a.transactions) + 1}
    /\ Cardinality({ j \in 1..Len(a.transactions) :
                        a.transactions[j] # b.transactions[j] }) <= 1

\* C28: undo never installs a ledger of an earlier extraction: once a
\* processing run has completed, the history starts at the newest
\* extraction result, every later snapshot derives from the one before it
\* by one mutation, the ledger derives from the last snapshot, and an
\* undo that pops the history installs the snapshot it pops.
C28_HistoryOfNewestExtraction ==
    [][ result' # Null =>
          /\ Len(history') >= 1
          /\ history'[1] = extracted'
          /\ \A i \in 1..(Len(history') - 1) :
                 DerivedInOneStep(history'[i], history'[i + 1])
          /\ DerivedInOneStep(history'[Len(history')], result')
          /\ lastCall'.op = "undo" /\ Len(history') < Len(history) =>
                 result' = history[Len(history)] ]_vars

\* C28 witness: a ledger was discarded by a new run while a chat call was
\* outstanding, and on the ledger of the new run an edit has been undone
C28_Witness ==
    /\ orphanCalls >= 1
    /\ result # Null
    /\ lastCall = [op |-> "undo", via |-> "chat", len |-> 2]
    /\ history = <<extracted>>
    /\ result = extracted

\* C29: a pending action proposed against one ledger is never applied to
\* the ledger of a later extraction: when a processing run installs its
\* ledger the chat is in its initial state (no pending action, only the
\* greeting), and an affirmative reply acts on a ledger of the extraction
\* the action was proposed on.
C29_ChatResetWithLedger ==
    [][ /\ processCalls' < processCalls /\ result' # Null =>
              /\ pendingAction' = Null
              /\ messages' = Greeting
              /\ ~isLoading'
        /\ AffirmativeStep /\ proposedOn # Null =>
              Header(proposedOn) = Header(result) ]_vars

\* C30: every accepted chat submission eventually ends with the loading
\* flag cleared, given that the AI service eventually answers or fails:
\* whenever the chat is loading it is eventually not loading.
C30_LoadingEventuallyCleared == isLoading ~> ~isLoading

\* C21: across a reload the raw statement text and the file name are
\* restored to the values they had when the page was left, while the
\* ledger, the undo history, the chat messages and the pending action
\* start empty.
C21_ReloadRestoresTextAndName ==
    [][ page # NoPage /\ page'.reloads > page.reloads =>
            /\ statementContent' = statementContent
            /\ page'.fileName = page.fileName
            /\ result' = Null
            /\ history' = <<>>
            /\ messages' = Greeting
            /\ pendingAction' = Null ]_vars

\* a page that showed an edited ledger of the uploaded files a and b, with
\* an action pending, has been reloaded
C21_Witness ==
    /\ page # NoPage
    /\ page.reloads = 1
    /\ page.left
    /\ statementContent = "statement"
    /\ page.fileName = "a, b"
    /\ result = Null
    /\ pendingAction = Null

\* the step is onresult of a started recognizer with a transcript that
\* parses to a number
NumberHeardStep ==
    /\ voice # NoVoice
    /\ voice'.heard # Null
    /\ voice.recognizers[voice'.heard.recognizer].status = "listening"
    /\ voice'.recognizers[voice'.heard.recognizer].status = "heard"
    /\ IsNumber(voice'.heard.transcript)

\* C25: when voice input was started on a cell and the recognizer that
\* was started delivers a transcript that parses to a number, the scaled
\* value is written to exactly that cell of the ledger.
C25_VoiceInputUpdatesCell ==
    [][ NumberHeardStep =>
            LET cell == voice.recognizers[voice'.heard.recognizer].startedOn
            IN  result' = UpdatedResult(result, cell.index, cell.field,
                                        ScaledValue(voice'.heard.transcript)) ]_vars

\* the content the files of the upload give when their results are taken
\* in input order, for each text the OCR may return
ContentsInInputOrder(fileNames) ==
    LET inOrder == [i \in 1..Len(fileNames) |-> FileResult(fileNames[i])]
    IN  { CombinedText(inOrder, Len(fileNames), textFromImages) :
              textFromImages \in OcrTexts(AllImages(inOrder, Len(fileNames))) }

\* C22: whatever the order in which the extractions of the files of an
\* upload complete, the content installed is the texts of the files in
\* input order joined by the separator, followed by the OCR text of all
\* images; when an extraction fails no content is installed.
C22_CombinedInInputOrder ==
    [][ upload # NoUpload /\ upload.status = "extracting" =>
            /\ upload'.status = "installed" =>
                   statementContent' \in ContentsInInputOrder(upload.files)
            /\ upload'.status = "failed" =>
                   statementContent' = "" /\ statementContent = ""
            /\ upload'.status = "extracting" =>
                   statementContent' = "" ]_vars

\* after an upload that failed, the files b (image), c (text) and a (text)
\* have been extracted in the order a, c, b and their content installed
C22_Witness ==
    /\ upload # NoUpload
    /\ upload.status = "installed"
    /\ upload.failedBefore
    /\ upload.files = <<"b", "c", "a">>
    /\ upload.order = <<3, 2, 1>>
    /\ statementContent = "y\n\n--- TACH BIET SAO KE ---\n\nx\n\nb"

=============================================================================
